---- MODULE Spec2Model ----
(***************************************************************************)
(* Model of ainspector's diff range model (internal/diff/parser.go), the   *)
(* change correlator (internal/extractor), the fingerprint engine and the  *)
(* review tracker (internal/cache).                                        *)
(*                                                                         *)
(* Text is modelled as a sequence of one-character strings.  A patch is a  *)
(* sequence of physical lines; a line is a record whose txt field holds    *)
(* the characters of the line.  The numbers of a hunk header line          *)
(* "@@ -os,ol +ns,nl @@" are carried in the fields os, ns, nl of the line  *)
(* (ol is never read by the program and is left out); its txt is "@@".     *)
(* A hunk header whose numbers cannot be read carries -1.                  *)
(* The file header lines "--- a/file" and "+++ b/file" are abbreviated to  *)
(* "---" and "+++".                                                        *)
(***************************************************************************)
EXTENDS Integers, Sequences, FiniteSets, TLC

VARIABLES
    patch,      \* the patch text handed to the diff functions
    op,         \* the operation that produced the current results
    rng,        \* <<startLine, endLine>> of the last range query
    ml,         \* *ModifiedLines returned by ParsePatch
    err,        \* whether ParsePatch returned an error
    has,        \* result of HasModifiedLineInRange
    out,        \* string returned by ExtractDiffForRange
    rngB,       \* <<startLine, endLine>> of a second range query
    outB,       \* string returned by ExtractDiffForRange for the second range
    rawA,       \* result.String() of the first query, before strings.TrimSpace
    rawB,       \* result.String() of the second query, before strings.TrimSpace
    files,      \* []provider.ModifiedFile handed to ExtractModifiedFunctions
    cfg,        \* the extractor's *config.Config
    functions,  \* []ExtractedFunction returned by ExtractModifiedFunctions
    xerr,       \* whether ExtractModifiedFunctions returned an error
    cursorMatches, \* the matches cursor.Matches yields to Parse
    parsed,     \* []Function collected by Parse
    fnA,        \* an ExtractedFunction handed to FunctionHash
    fnB,        \* another one
    hashA,      \* FunctionHash(&fnA)
    hashB,      \* FunctionHash(&fnB)
    mkHash,     \* the hash handed to FormatHashMarker
    mkAround,   \* <<text before, text behind>> the marker in a comment body
    mkMarker,   \* FormatHashMarker(mkHash)
    mkBody,     \* the comment body handed to ExtractHash
    mkFound,    \* ExtractHash(mkBody)
    reviewed,   \* Tracker.reviewed: the hashes mapped to true
    loaded,     \* history: the ReviewedComments handed to LoadFromComments so far
    trkFns,     \* the caller's []ExtractedFunction handed to FilterUnreviewed
    trkOut,     \* the value the last Tracker method returned
    llmFns,     \* the []ExtractedFunction handed to ReviewFunctions
    llmOracle,  \* what client.Complete returns on its first, second, ... call
    llmCalls,   \* the functions client.Complete was called for, in order
    llmResults, \* []ReviewResult returned by ReviewFunctions
    prComments, \* the bodies of the review comments on the pull request
    answered,   \* the functions the LLM answered for in the runs so far
    run,        \* what the last run of runReview did
    erred       \* the functions whose review failed in the run before the
                \* last one, and in the last one

pairVars == <<rngB, outB, rawA, rawB>>
diffVars == <<patch, rng, ml, err, has, out, pairVars>>
parseVars == <<cursorMatches, parsed>>
extVars  == <<files, cfg, functions, xerr, parseVars>>
hashVars == <<fnA, fnB, hashA, hashB>>
markVars == <<mkHash, mkAround, mkMarker, mkBody, mkFound>>
trkVars == <<reviewed, loaded, trkFns, trkOut>>
llmVars == <<llmFns, llmOracle, llmCalls, llmResults>>
runVars == <<prComments, answered, run, erred>>
laterVars == <<markVars, trkVars, llmVars, runVars>>
vars == <<op, diffVars, extVars, hashVars, laterVars>>

(***************************************************************************)
(* Bounds of the model.                                                    *)
(***************************************************************************)
MaxBody == 3        \* body lines of a patch, all hunks together
MaxLine == 3        \* largest line number used in a range query
MaxFiles == 2       \* files of a changeset

NL == "\n"
BS == "\\"

(***************************************************************************)
(* Patch texts.                                                            *)
(***************************************************************************)
Line(t, os, ns, nl) == [txt |-> t, os |-> os, ns |-> ns, nl |-> nl]
TextLine(t) == Line(t, 0, 0, 0)
FileOldLine == TextLine(<<"-", "-", "-">>)
FileNewLine == TextLine(<<"+", "+", "+">>)
HunkLine(h) == Line(<<"@", "@">>, h[1], h[2], h[3])
BadHunkLine == HunkLine(<<-1, -1, -1>>)

\* The physical lines that occur inside hunk bodies: added, added with
\* trailing blank, deleted, context, a backslash line that is not the
\* "\ No newline at end of file" message, and a zero-length line.
BodyTexts ==
    { <<"+", "a">>, <<"+", " ">>, <<"-", "a">>, <<" ", "a">>, <<BS, "a">>, <<>> }

\* <<old start, new start, new count>> of the hunk headers: an ordinary hunk
\* at the top of the file, a new file (-0,0 +1,n), a whole-file deletion
\* (+0,0), a hunk further down, and a pure deletion after new line 1 (+1,0).
FirstHeaders  == { <<1, 1, 2>>, <<0, 1, 1>>, <<1, 0, 0>>, <<2, 3, 1>>, <<2, 1, 0>> }
SecondHeaders == { <<2, 3, 1>>, <<3, 2, 2>> }

BodiesOfLen(n) == [1..n -> {TextLine(t) : t \in BodyTexts}]

\* The patches of one hunk with n body lines.
OneHunkPatches(n) ==
    { <<HunkLine(h)>> \o b : h \in FirstHeaders, b \in BodiesOfLen(n) }

\* The patches of two hunks with n1 and n2 body lines.
TwoHunkPatches(n1, n2) ==
    { <<HunkLine(h1)>> \o b1 \o <<HunkLine(h2)>> \o b2 :
        h1 \in FirstHeaders, h2 \in SecondHeaders,
        b1 \in BodiesOfLen(n1), b2 \in BodiesOfLen(n2) }

\* Body lengths of the two hunks of a patch: a line at least in each.
TwoHunkLengths == { m \in (1..MaxBody) \X (1..MaxBody) : m[1] + m[2] <= MaxBody }

\* Patches go-diff rejects: a hunk header that cannot be read, first or later.
BadPatches ==
    { <<BadHunkLine>>,
      <<HunkLine(<<1, 1, 2>>), TextLine(<<"+", "a">>), BadHunkLine, TextLine(<<"+", "a">>)>> }

\* The patches of the model: the empty patch, the patches of one hunk with
\* and without the file header lines, the patches of two hunks, and the
\* patches that do not parse.
IsPatch(p) ==
    \/ p = <<>>
    \/ p \in BadPatches
    \/ \E n \in 0..MaxBody : p \in OneHunkPatches(n)
    \/ \E n \in 0..MaxBody :
         p \in { <<FileOldLine, FileNewLine>> \o q : q \in OneHunkPatches(n) }
    \/ \E m \in TwoHunkLengths : p \in TwoHunkPatches(m[1], m[2])

\* A line number no hunk of the patches reaches: the end of the "full" range.
FullEnd ==
    LET starts == { h[2] : h \in FirstHeaders \cup SecondHeaders }
    IN  (CHOOSE m \in starts : \A x \in starts : x <= m) + MaxBody + 1

Ranges == { r \in (1..MaxLine) \X (1..MaxLine) : r[1] <= r[2] } \cup { <<1, FullEnd>> }

(***************************************************************************)
(* Strings.                                                                *)
(***************************************************************************)
IsSpace(c) == c \in {" ", NL}

\* strings.TrimSpace
RECURSIVE TrimLeft(_)
TrimLeft(s) ==
    IF s # <<>> /\ IsSpace(Head(s)) THEN TrimLeft(Tail(s)) ELSE s

RECURSIVE TrimRight(_)
TrimRight(s) ==
    IF s # <<>> /\ IsSpace(s[Len(s)]) THEN TrimRight(SubSeq(s, 1, Len(s) - 1)) ELSE s

TrimSpace(s) == TrimRight(TrimLeft(s))

\* strings.Split(s, "\n")
RECURSIVE Split(_)
Split(s) ==
    IF \A i \in 1..Len(s) : s[i] # NL
    THEN <<s>>
    ELSE LET k == CHOOSE i \in 1..Len(s) : s[i] = NL /\ \A j \in 1..(i - 1) : s[j] # NL
         IN  <<SubSeq(s, 1, k - 1)>> \o Split(SubSeq(s, k + 1, Len(s)))

\* strings.HasPrefix(patch, "---")
HasFileHeader(p) ==
    /\ p # <<>>
    /\ Len(p[1].txt) >= 3
    /\ SubSeq(p[1].txt, 1, 3) = <<"-", "-", "-">>

\* WithFileHeader without the HasPrefix test.
WithFileHeader_Always(p) == <<FileOldLine, FileNewLine>> \o p

\* patch = "--- a/file\n+++ b/file\n" + patch, when the headers are missing
WithFileHeader(p) ==
    IF HasFileHeader(p) THEN p ELSE <<FileOldLine, FileNewLine>> \o p

(***************************************************************************)
(* go-diff: diff.ParseMultiFileDiff, for one file.  The two file header     *)
(* lines are consumed; every "@@" line opens a hunk with its declared       *)
(* numbers; every following line up to the next "@@" line is appended to    *)
(* the hunk's Body, each terminated by a newline.  A hunk header that      *)
(* cannot be read fails the whole parse.                                   *)
(***************************************************************************)
IsHunkHeader(l) == Len(l.txt) >= 2 /\ SubSeq(l.txt, 1, 2) = <<"@", "@">>

RECURSIVE ReadHunks(_, _, _)
ReadHunks(lines, i, hunks) ==
    IF i > Len(lines) THEN [hunks |-> hunks, err |-> FALSE]
    ELSE IF IsHunkHeader(lines[i])
    THEN IF lines[i].os < 0
         THEN [hunks |-> <<>>, err |-> TRUE]
         ELSE ReadHunks(lines, i + 1,
                  Append(hunks, [OrigStartLine |-> lines[i].os,
                                 NewStartLine  |-> lines[i].ns,
                                 NewLines      |-> lines[i].nl,
                                 Body          |-> <<>>]))
    ELSE IF hunks = <<>> THEN [hunks |-> hunks, err |-> FALSE]
    ELSE ReadHunks(lines, i + 1,
             [hunks EXCEPT ![Len(hunks)].Body = @ \o lines[i].txt \o <<NL>>])

ParseMultiFileDiff(p) == ReadHunks(p, 3, <<>>)

(***************************************************************************)
(* ParsePatch.                                                             *)
(***************************************************************************)
\* ParsePatchLine whose default case leaves the counters alone.
ParsePatchLine_DefaultSkips(st, line) ==
    IF Len(line) = 0 THEN st
    ELSE IF line[1] = "+"
    THEN [st EXCEPT !.Added = Append(@, st.newLine), !.newLine = @ + 1]
    ELSE IF line[1] = "-"
    THEN [st EXCEPT !.Deleted = Append(@, st.oldLine), !.oldLine = @ + 1]
    ELSE IF line[1] = " "
    THEN [st EXCEPT !.newLine = @ + 1, !.oldLine = @ + 1]
    ELSE st

\* One turn of the loop over the lines of a hunk body: st holds the result
\* under construction and the two counters.
\* A variant in which a zero-length line advances both counters, as a line
\* with an unrecognised first character does.
ParsePatchLine_EmptyAdvances(st, line) ==
    IF Len(line) = 0 THEN [st EXCEPT !.newLine = @ + 1, !.oldLine = @ + 1]
    ELSE IF line[1] = "+"
    THEN [st EXCEPT !.Added = Append(@, st.newLine), !.newLine = @ + 1]
    ELSE IF line[1] = "-"
    THEN [st EXCEPT !.Deleted = Append(@, st.oldLine), !.oldLine = @ + 1]
    ELSE [st EXCEPT !.newLine = @ + 1, !.oldLine = @ + 1]

\* A variant that records a line's number after advancing its counter.
ParsePatchLine_RecordsAfter(st, line) ==
    IF Len(line) = 0 THEN st
    ELSE IF line[1] = "+"
    THEN [st EXCEPT !.Added = Append(@, st.newLine + 1), !.newLine = @ + 1]
    ELSE IF line[1] = "-"
    THEN [st EXCEPT !.Deleted = Append(@, st.oldLine + 1), !.oldLine = @ + 1]
    ELSE [st EXCEPT !.newLine = @ + 1, !.oldLine = @ + 1]

ParsePatchLine(st, line) ==
    IF Len(line) = 0 THEN st
    ELSE IF line[1] = "+"
    THEN [st EXCEPT !.Added = Append(@, st.newLine), !.newLine = @ + 1]
    ELSE IF line[1] = "-"
    THEN [st EXCEPT !.Deleted = Append(@, st.oldLine), !.oldLine = @ + 1]
    ELSE IF line[1] = " "
    THEN [st EXCEPT !.newLine = @ + 1, !.oldLine = @ + 1]
    ELSE [st EXCEPT !.newLine = @ + 1, !.oldLine = @ + 1]

RECURSIVE ParsePatchLines(_, _, _)
ParsePatchLines(st, lines, i) ==
    IF i > Len(lines) THEN st
    ELSE ParsePatchLines(ParsePatchLine(st, lines[i]), lines, i + 1)

\* The loop over the hunks: the counters start from the hunk's declared
\* start lines.
RECURSIVE ParsePatchHunks(_, _, _)
ParsePatchHunks(res, hunks, h) ==
    IF h > Len(hunks) THEN res
    ELSE LET st == ParsePatchLines(
                       [Added |-> res.Added, Deleted |-> res.Deleted,
                        newLine |-> hunks[h].NewStartLine,
                        oldLine |-> hunks[h].OrigStartLine],
                       Split(hunks[h].Body), 1)
         IN  ParsePatchHunks([Added |-> st.Added, Deleted |-> st.Deleted], hunks, h + 1)

\* The pair (result, err) ParsePatch returns; a nil result is NoLines.
NoLines == [Added |-> <<>>, Deleted |-> <<>>]

ParsePatch(p) ==
    IF p = <<>> THEN [lines |-> NoLines, err |-> FALSE]
    ELSE LET fileDiffs == ParseMultiFileDiff(WithFileHeader(p))
         IN  IF fileDiffs.err
             THEN [lines |-> NoLines, err |-> TRUE]
             ELSE [lines |-> ParsePatchHunks(NoLines, fileDiffs.hunks, 1), err |-> FALSE]

(***************************************************************************)
(* HasModifiedLineInRange.                                                 *)
(***************************************************************************)
\* AddedLineInRange with the end of the range left out.
AddedLineInRange_EndExclusive(line, startLine, endLine) ==
    line >= startLine /\ line < endLine

\* The test of the loop over Added.
AddedLineInRange(line, startLine, endLine) ==
    line >= startLine /\ line <= endLine

RECURSIVE HasModifiedLineFrom(_, _, _, _)
HasModifiedLineFrom(added, i, startLine, endLine) ==
    IF i > Len(added) THEN FALSE
    ELSE IF AddedLineInRange(added[i], startLine, endLine) THEN TRUE
    ELSE HasModifiedLineFrom(added, i + 1, startLine, endLine)

HasModifiedLineInRange(m, startLine, endLine) ==
    HasModifiedLineFrom(m.Added, 1, startLine, endLine)

(***************************************************************************)
(* ExtractDiffForRange.                                                    *)
(***************************************************************************)
\* ExtractLine without the one-line lookahead for deleted lines.
ExtractLine_NoLookahead(st, line, startLine, endLine) ==
    IF Len(line) = 0 THEN st
    ELSE LET inRange == st.newLine >= startLine /\ st.newLine <= endLine
         IN  IF line[1] = "+"
             THEN [result  |-> IF inRange THEN st.result \o line \o <<NL>> ELSE st.result,
                   newLine |-> st.newLine + 1]
             ELSE IF line[1] = "-"
             THEN [result  |-> IF inRange THEN st.result \o line \o <<NL>> ELSE st.result,
                   newLine |-> st.newLine]
             ELSE [st EXCEPT !.newLine = @ + 1]

\* A variant that takes the deleted lines just behind the end of the range
\* and no others.
ExtractLine_OnlyBehindEnd(st, line, startLine, endLine) ==
    IF Len(line) = 0 THEN st
    ELSE LET inRange == st.newLine >= startLine /\ st.newLine <= endLine
         IN  IF line[1] = "+"
             THEN [result  |-> IF inRange THEN st.result \o line \o <<NL>> ELSE st.result,
                   newLine |-> st.newLine + 1]
             ELSE IF line[1] = "-"
             THEN [result  |-> IF st.newLine = endLine + 1
                               THEN st.result \o line \o <<NL>> ELSE st.result,
                   newLine |-> st.newLine]
             ELSE [st EXCEPT !.newLine = @ + 1]

\* A variant that also takes the deleted lines one position before the
\* start of the range.
ExtractLine_Lookbehind(st, line, startLine, endLine) ==
    IF Len(line) = 0 THEN st
    ELSE LET inRange == st.newLine >= startLine /\ st.newLine <= endLine
         IN  IF line[1] = "+"
             THEN [result  |-> IF inRange THEN st.result \o line \o <<NL>> ELSE st.result,
                   newLine |-> st.newLine + 1]
             ELSE IF line[1] = "-"
             THEN [result  |-> IF inRange \/ (st.newLine >= startLine - 1 /\ st.newLine <= endLine + 1)
                               THEN st.result \o line \o <<NL>> ELSE st.result,
                   newLine |-> st.newLine]
             ELSE [st EXCEPT !.newLine = @ + 1]

\* One turn of the loop over the lines of an overlapping hunk: st holds the
\* strings.Builder and the new-line counter.
ExtractLine(st, line, startLine, endLine) ==
    IF Len(line) = 0 THEN st
    ELSE LET inRange == st.newLine >= startLine /\ st.newLine <= endLine
         IN  IF line[1] = "+"
             THEN [result  |-> IF inRange THEN st.result \o line \o <<NL>> ELSE st.result,
                   newLine |-> st.newLine + 1]
             ELSE IF line[1] = "-"
             THEN [result  |-> IF inRange \/ (st.newLine >= startLine /\ st.newLine <= endLine + 1)
                               THEN st.result \o line \o <<NL>> ELSE st.result,
                   newLine |-> st.newLine]
             ELSE [st EXCEPT !.newLine = @ + 1]

RECURSIVE ExtractLines(_, _, _, _, _)
ExtractLines(st, lines, i, startLine, endLine) ==
    IF i > Len(lines) THEN st
    ELSE ExtractLines(ExtractLine(st, lines[i], startLine, endLine),
                      lines, i + 1, startLine, endLine)

\* HunkOverlaps with a strict comparison at the start of the range.
HunkOverlaps_Strict(hunk, startLine, endLine) ==
    LET hunkStart == hunk.NewStartLine
        hunkEnd   == hunkStart + hunk.NewLines - 1
    IN  hunkEnd > startLine /\ hunkStart <= endLine

\* HunkOverlaps that lets every hunk through.
HunkOverlaps_Always(hunk, startLine, endLine) == TRUE

\* HunkOverlaps with a strict comparison at the end of the range.
HunkOverlaps_BelowEnd(hunk, startLine, endLine) ==
    LET hunkStart == hunk.NewStartLine
        hunkEnd   == hunkStart + hunk.NewLines - 1
    IN  hunkEnd >= startLine /\ hunkStart < endLine

\* The check that a hunk overlaps the range.
HunkOverlaps(hunk, startLine, endLine) ==
    LET hunkStart == hunk.NewStartLine
        hunkEnd   == hunkStart + hunk.NewLines - 1
    IN  hunkEnd >= startLine /\ hunkStart <= endLine

RECURSIVE ExtractHunks(_, _, _, _, _)
ExtractHunks(result, hunks, h, startLine, endLine) ==
    IF h > Len(hunks) THEN result
    ELSE IF HunkOverlaps(hunks[h], startLine, endLine)
    THEN ExtractHunks(
             ExtractLines([result |-> result, newLine |-> hunks[h].NewStartLine],
                          Split(hunks[h].Body), 1, startLine, endLine).result,
             hunks, h + 1, startLine, endLine)
    ELSE ExtractHunks(result, hunks, h + 1, startLine, endLine)

ExtractDiffForRange(p, startLine, endLine) ==
    IF p = <<>> THEN <<>>
    ELSE LET fileDiffs == ParseMultiFileDiff(WithFileHeader(p))
         IN  IF fileDiffs.err THEN <<>>
             ELSE TrimSpace(ExtractHunks(<<>>, fileDiffs.hunks, 1, startLine, endLine))

(***************************************************************************)
(* The diff range model as a state machine: a patch arrives, ParsePatch is *)
(* called on it, and the two range queries are answered.                   *)
(***************************************************************************)
IdlePair ==
    /\ rngB = <<0, 0>>
    /\ outB = <<>>
    /\ rawA = <<>>
    /\ rawB = <<>>

IdleDiff ==
    /\ patch = <<>>
    /\ rng = <<0, 0>>
    /\ ml = NoLines
    /\ err = FALSE
    /\ has = FALSE
    /\ out = <<>>
    /\ IdlePair

IdleParse ==
    /\ cursorMatches = <<>>
    /\ parsed = <<>>

IdleExtract ==
    /\ files = <<>>
    /\ cfg = [nil |-> TRUE, IgnorePaths |-> <<>>]
    /\ functions = <<>>
    /\ xerr = FALSE
    /\ IdleParse

IdleHash ==
    /\ fnA = <<>>
    /\ fnB = <<>>
    /\ hashA = <<>>
    /\ hashB = <<>>

IdleMark ==
    /\ mkHash = <<>>
    /\ mkAround = <<>>
    /\ mkMarker = <<>>
    /\ mkBody = <<>>
    /\ mkFound = <<>>

IdleTracker ==
    /\ reviewed = {}
    /\ loaded = {}
    /\ trkFns = <<>>
    /\ trkOut = <<>>

IdleLLM ==
    /\ llmFns = <<>>
    /\ llmOracle = <<>>
    /\ llmCalls = <<>>
    /\ llmResults = <<>>

IdleRun ==
    /\ prComments = {}
    /\ answered = {}
    /\ run = <<>>
    /\ erred = <<{}, {}>>

IdleLater == IdleMark /\ IdleTracker /\ IdleLLM /\ IdleRun

InitDiff ==
    /\ IsPatch(patch)
    /\ op = "start"
    /\ rng = <<0, 0>>
    /\ ml = NoLines
    /\ err = FALSE
    /\ has = FALSE
    /\ out = <<>>
    /\ IdlePair
    /\ IdleExtract
    /\ IdleHash
    /\ IdleLater

DoParsePatch ==
    /\ op = "start"
    /\ ml' = ParsePatch(patch).lines
    /\ err' = ParsePatch(patch).err
    /\ op' = "ParsePatch"
    /\ UNCHANGED <<patch, rng, has, out, pairVars, extVars, hashVars, laterVars>>

DoHasModifiedLineInRange ==
    /\ op = "ParsePatch"
    /\ ~err
    /\ \E r \in Ranges :
        /\ rng' = r
        /\ has' = HasModifiedLineInRange(ml, r[1], r[2])
    /\ op' = "HasModifiedLineInRange"
    /\ UNCHANGED <<patch, ml, err, out, pairVars, extVars, hashVars, laterVars>>

DoExtractDiffForRange ==
    /\ op = "ParsePatch"
    /\ \E r \in Ranges :
        /\ rng' = r
        /\ out' = ExtractDiffForRange(patch, r[1], r[2])
    /\ op' = "ExtractDiffForRange"
    /\ UNCHANGED <<patch, ml, err, has, pairVars, extVars, hashVars, laterVars>>

NextDiff ==
    \/ DoParsePatch
    \/ DoHasModifiedLineInRange
    \/ DoExtractDiffForRange

SpecDiff == InitDiff /\ [][NextDiff]_vars

(***************************************************************************)
(* The patch read line by line, without the parser: the positions of the   *)
(* hunk body lines and the line numbers the unified diff format gives them. *)
(***************************************************************************)
FirstChar(l) == IF l.txt = <<>> THEN "" ELSE l.txt[1]

\* The lines of p that lie in a hunk body.
BodyIdx(p) ==
    { i \in 1..Len(p) : ~IsHunkHeader(p[i]) /\ \E j \in 1..(i - 1) : IsHunkHeader(p[j]) }

\* The hunk header line above body line i.
HunkOf(p, i) ==
    CHOOSE j \in 1..(i - 1) :
        IsHunkHeader(p[j]) /\ \A k \in (j + 1)..(i - 1) : ~IsHunkHeader(p[k])

\* The new-file and old-file line numbers standing at body line i.
NewLineAt(p, i) ==
    p[HunkOf(p, i)].ns
      + Cardinality({ j \in (HunkOf(p, i) + 1)..(i - 1) : FirstChar(p[j]) \notin {"", "-"} })

OldLineAt(p, i) ==
    p[HunkOf(p, i)].os
      + Cardinality({ j \in (HunkOf(p, i) + 1)..(i - 1) : FirstChar(p[j]) \notin {"", "+"} })

\* The k-th smallest element of a set of positions, and the sequence of the
\* values f gives along the set in ascending order.
Nth(S, k) == CHOOSE i \in S : Cardinality({ j \in S : j <= i }) = k
AlongIdx(S, f(_)) == [k \in 1..Cardinality(S) |-> f(Nth(S, k))]

RECURSIVE Flatten(_)
Flatten(ls) == IF ls = <<>> THEN <<>> ELSE Head(ls) \o <<NL>> \o Flatten(Tail(ls))

PlusIdx(p)  == { i \in BodyIdx(p) : FirstChar(p[i]) = "+" }
MinusIdx(p) == { i \in BodyIdx(p) : FirstChar(p[i]) = "-" }

Parsed == op # "start" /\ ~err

(***************************************************************************)
(* C1: ParsePatch walks every hunk in order with two counters seeded from  *)
(* the hunk's declared old and new start; a '+' line records the new       *)
(* counter in Added and advances only it, a '-' line records the old       *)
(* counter in Deleted and advances only it, a line with a leading space or *)
(* any other leading character advances both and is recorded nowhere.      *)
(* So Added lists, in patch order, for each '+' line the declared new      *)
(* start plus the number of '+', context and other lines above it in its   *)
(* hunk, and Deleted likewise with the old start and the '-' lines.        *)
(***************************************************************************)
C1_ParsePatchCounters ==
    Parsed =>
        /\ ml.Added   = AlongIdx(PlusIdx(patch),  LAMBDA i : NewLineAt(patch, i))
        /\ ml.Deleted = AlongIdx(MinusIdx(patch), LAMBDA i : OldLineAt(patch, i))

\* Two hunks, with an added line below a context line and a deleted line.
C1_Witness ==
    /\ op = "ParsePatch" /\ ~err
    /\ Cardinality({ i \in 1..Len(patch) : IsHunkHeader(patch[i]) }) = 2
    /\ \E i \in PlusIdx(patch) : NewLineAt(patch, i) > patch[HunkOf(patch, i)].ns
    /\ ml.Added # <<>> /\ ml.Deleted # <<>>

(***************************************************************************)
(* C2 as stated: for every patch that parses, the lengths of Added and     *)
(* Deleted equal the numbers of lines of the patch text that start with    *)
(* '+' and with '-'.                                                       *)
(***************************************************************************)
C2_NaiveTally ==
    Parsed =>
        /\ Len(ml.Added)   = Cardinality({ i \in 1..Len(patch) : FirstChar(patch[i]) = "+" })
        /\ Len(ml.Deleted) = Cardinality({ i \in 1..Len(patch) : FirstChar(patch[i]) = "-" })

(***************************************************************************)
(* C2 amended: the tally leaves out the two file header lines "--- ..."    *)
(* and "+++ ..." when the patch starts with them; the empty patch gives    *)
(* empty Added and Deleted and no error.                                   *)
(***************************************************************************)
C2_TallyBelowFileHeader ==
    LET first == IF HasFileHeader(patch) THEN 3 ELSE 1
    IN  /\ Parsed =>
            /\ Len(ml.Added) =
                   Cardinality({ i \in first..Len(patch) : FirstChar(patch[i]) = "+" })
            /\ Len(ml.Deleted) =
                   Cardinality({ i \in first..Len(patch) : FirstChar(patch[i]) = "-" })
        /\ (op # "start" /\ patch = <<>>) => ~err /\ ml = NoLines

\* A patch with its file header and an added line has been parsed.
C2_Witness ==
    /\ op = "ParsePatch" /\ ~err
    /\ HasFileHeader(patch)
    /\ Len(ml.Added) = 1

(***************************************************************************)
(* C3: HasModifiedLineInRange(start, end) is true exactly when some entry  *)
(* of Added lies in [start, end], both ends included; Deleted plays no     *)
(* part.                                                                   *)
(***************************************************************************)
C3_HasModifiedIffAddedInRange ==
    op = "HasModifiedLineInRange" =>
        (has <=> \E k \in 1..Len(ml.Added) : rng[1] <= ml.Added[k] /\ ml.Added[k] <= rng[2])

\* The only added line in the range sits on its upper end, beside deletions.
C3_Witness ==
    /\ op = "HasModifiedLineInRange"
    /\ has
    /\ ml.Deleted # <<>>
    /\ rng[1] < rng[2]
    /\ \A k \in 1..Len(ml.Added) : ml.Added[k] >= rng[2]

(***************************************************************************)
(* The text made of the lines of p at the positions S, in patch order,     *)
(* each followed by a newline, as ExtractDiffForRange returns it: trimmed. *)
(***************************************************************************)
LinesAt(p, S) == TrimSpace(Flatten(AlongIdx(S, LAMBDA i : p[i].txt)))

\* The declared new-file span of the hunk of body line i overlaps [s, e].
SpanOverlaps(p, i, s, e) ==
    LET h == p[HunkOf(p, i)]
    IN  h.ns + h.nl - 1 >= s /\ h.ns <= e

(***************************************************************************)
(* C4: in ExtractDiffForRange(patch, start, end), within a hunk whose      *)
(* declared new-file span overlaps [start, end] and with a counter n       *)
(* seeded from the hunk's new start, a '+' line is emitted iff n is in     *)
(* [start, end], a '-' line iff n is in [start, end+1], a context line     *)
(* never; a hunk that does not overlap emits nothing.  The emitted lines   *)
(* keep their prefix and the patch's order.                                *)
(***************************************************************************)
C4_EmittedLines ==
    (op = "ExtractDiffForRange" /\ ~err) =>
        out = LinesAt(patch,
                  { i \in BodyIdx(patch) :
                      /\ SpanOverlaps(patch, i, rng[1], rng[2])
                      /\ \/ /\ FirstChar(patch[i]) = "+"
                            /\ rng[1] <= NewLineAt(patch, i) /\ NewLineAt(patch, i) <= rng[2]
                         \/ /\ FirstChar(patch[i]) = "-"
                            /\ rng[1] <= NewLineAt(patch, i)
                            /\ NewLineAt(patch, i) <= rng[2] + 1 })

\* The replacement of line 2 asked for the range (2, 2): "-a\n+a".
C4_Witness ==
    /\ op = "ExtractDiffForRange"
    /\ rng = <<2, 2>>
    /\ patch = <<HunkLine(<<1, 1, 2>>), TextLine(<<" ", "a">>),
                 TextLine(<<"-", "a">>), TextLine(<<"+", "a">>)>>
    /\ out = <<"-", "a", NL, "+", "a">>

(***************************************************************************)
(* C5 as stated: over the full range (1, E), E beyond every line of the    *)
(* patch, ExtractDiffForRange returns every '+' and every '-' line of      *)
(* every hunk, in the original order with the prefixes intact, and the     *)
(* empty string for the empty patch.                                       *)
(***************************************************************************)
C5_FullRangeAllChanges ==
    (op = "ExtractDiffForRange" /\ ~err /\ rng = <<1, FullEnd>>) =>
        out = LinesAt(patch, PlusIdx(patch) \cup MinusIdx(patch))

(***************************************************************************)
(* C5 amended: over the full range ExtractDiffForRange returns every '+'   *)
(* and every '-' line of every hunk whose declared new start is at least 1 *)
(* and whose declared new-file span ends at line 1 or later (new start +   *)
(* new count >= 2), and nothing of a hunk whose span ends before line 1    *)
(* (+0,0, the whole-file deletion, and +1,0).                              *)
(***************************************************************************)
C5_FullRangeChangesFromLineOne ==
    (op = "ExtractDiffForRange" /\ ~err /\ rng = <<1, FullEnd>>) =>
        /\ out = LinesAt(patch,
                     { i \in PlusIdx(patch) \cup MinusIdx(patch) :
                         LET h == patch[HunkOf(patch, i)]
                         IN  h.ns >= 1 /\ h.ns + h.nl >= 2 })
        /\ patch = <<>> => out = <<>>

\* Two hunks, both returned whole: an added line with a trailing blank
\* first, a deleted and an added line after it.
C5_Witness ==
    /\ op = "ExtractDiffForRange"
    /\ rng = <<1, FullEnd>>
    /\ Cardinality({ i \in 1..Len(patch) : IsHunkHeader(patch[i]) }) = 2
    /\ out = <<"+", " ", NL, "-", "a", NL, "+", "a">>

(***************************************************************************)
(* The change correlator (package extractor) and what it calls: the        *)
(* ignore patterns of the configuration, the table of languages, the       *)
(* provider's file contents and the function parser.                       *)
(***************************************************************************)
HasPrefix(s, pre) == Len(s) >= Len(pre) /\ SubSeq(s, 1, Len(pre)) = pre
HasSuffix(s, suf) == Len(s) >= Len(suf) /\ SubSeq(s, Len(s) - Len(suf) + 1, Len(s)) = suf

\* strings.ReplaceAll(s, "\\", "/")
SlashPath(s) == [i \in 1..Len(s) |-> IF s[i] = BS THEN "/" ELSE s[i]]

\* doublestar.Match, for the patterns of the model, which hold no wildcard.
GlobMatch(pattern, name) == pattern = name

\* basename: the part after the last "/"
Basename(s) ==
    IF \E i \in 1..Len(s) : s[i] = "/"
    THEN LET idx == CHOOSE i \in 1..Len(s) : s[i] = "/" /\ \A j \in (i + 1)..Len(s) : s[j] # "/"
         IN  SubSeq(s, idx + 1, Len(s))
    ELSE s

\* One ignore pattern against a normalized path.
PatternIgnores(pattern, normalizedPath) ==
    LET normalizedPattern == SlashPath(pattern)
    IN  IF HasSuffix(normalizedPattern, <<"/">>)
        THEN LET dirPattern == SubSeq(normalizedPattern, 1, Len(normalizedPattern) - 1)
             IN  \/ HasPrefix(normalizedPath, dirPattern \o <<"/">>)
                 \/ normalizedPath = dirPattern
        ELSE \/ GlobMatch(normalizedPattern, normalizedPath)
             \/ GlobMatch(normalizedPattern, Basename(normalizedPath))

ShouldIgnore(c, path) ==
    \E k \in 1..Len(c.IgnorePaths) : PatternIgnores(c.IgnorePaths[k], SlashPath(path))

\* strings.ToLower(filepath.Ext(path))
ToLower(s) ==
    [i \in 1..Len(s) |->
        CASE s[i] = "P" -> "p" [] s[i] = "Y" -> "y" [] s[i] = "G" -> "g"
          [] s[i] = "O" -> "o" [] OTHER -> s[i]]

Ext(path) ==
    LET base == Basename(path)
    IN  IF \E i \in 1..Len(base) : base[i] = "."
        THEN LET dot == CHOOSE i \in 1..Len(base) :
                            base[i] = "." /\ \A j \in (i + 1)..Len(base) : base[j] # "."
             IN  SubSeq(base, dot, Len(base))
        ELSE <<>>

\* languageConfigs, as far as the paths of the model reach: two languages
\* with a function query, one whose query cannot be compiled here (see
\* QueryFails), one without a query.
LanguageConfigs ==
    { [ext |-> <<".", "g", "o">>, Name |-> "go",     FunctionQuery |-> TRUE],
      [ext |-> <<".", "p", "y">>, Name |-> "python", FunctionQuery |-> TRUE],
      [ext |-> <<".", "r", "s">>, Name |-> "rust",   FunctionQuery |-> TRUE],
      [ext |-> <<".", "j", "s", "o", "n">>, Name |-> "json", FunctionQuery |-> FALSE] }

\* GetConfig(path) as the set of the configurations found: empty for nil.
GetConfig(path) == { c \in LanguageConfigs : c.ext = ToLower(Ext(path)) }

IsSupported(path) == \E c \in GetConfig(path) : c.FunctionQuery

(***************************************************************************)
(* The files of the model and their surroundings.                          *)
(***************************************************************************)
PathMain   == <<"m", ".", "g", "o">>
PathVendor == <<"v", "/", "x", ".", "P", "Y">>
PathDoc    == <<"r", ".", "m", "d">>
PathGone   == <<"n", ".", "g", "o">>
PathBroken == <<"q", ".", "r", "s">>
Paths == { PathMain, PathVendor, PathDoc, PathGone, PathBroken }

Statuses == { "added", "modified", "deleted", "renamed" }

\* Patches of a file: one adding the lines 2 and 3, one adding line 3 below
\* a deleted line, one go-diff rejects.
PatchAdd23 == <<HunkLine(<<1, 1, 3>>), TextLine(<<" ", "a">>),
                TextLine(<<"+", "a">>), TextLine(<<"+", " ">>)>>
PatchAdd3  == <<HunkLine(<<2, 3, 1>>), TextLine(<<"-", "a">>), TextLine(<<"+", "a">>)>>
FilePatches == { PatchAdd23, PatchAdd3, <<BadHunkLine>> }

\* provider.GetFileContent: the file at the head of the change, or an error.
GetFileContent(path) ==
    IF path = PathGone THEN [content |-> <<>>, err |-> TRUE]
    ELSE [content |-> path, err |-> FALSE]

\* The languages whose query tree-sitter refuses (SetLanguage or NewQuery
\* returns an error).
QueryFails == { "rust" }

\* cursor.Matches: the matches of the function query in a file's content,
\* each with the name capture, the rows of the function node (from 0) and
\* its text.  A match can repeat the node of an earlier one.
Match(name, startRow, endRow, text) ==
    [name |-> name, startRow |-> startRow, endRow |-> endRow, text |-> text]

QueryMatches(content) ==
    IF content = PathMain
    THEN << Match(<<"g">>, 2, 2, <<"G">>),
            Match(<<"f">>, 0, 1, <<" ", "F", NL>>),
            Match(<<>>,    0, 1, <<" ", "F", NL>>) >>
    ELSE IF content = PathVendor
    THEN << Match(<<>>, 1, 2, <<"H", ":", "h">>) >>
    ELSE << >>

Anonymous == <<"<", "a", "n", "o", "n", "y", "m", "o", "u", "s", ">">>

\* CollectFunctions with the start line alone as the key of seenFunctions.
RECURSIVE CollectFunctions_KeyStart(_, _, _, _)
CollectFunctions_KeyStart(ms, i, fns, seen) ==
    IF i > Len(ms) THEN fns
    ELSE LET startLine == ms[i].startRow + 1
             endLine   == ms[i].endRow + 1
             key       == startLine
         IN  IF key \in seen
             THEN CollectFunctions_KeyStart(ms, i + 1, fns, seen)
             ELSE CollectFunctions_KeyStart(ms, i + 1,
                      Append(fns, [Name      |-> IF ms[i].name = <<>>
                                                 THEN Anonymous ELSE ms[i].name,
                                   StartLine |-> startLine,
                                   EndLine   |-> endLine,
                                   Content   |-> TrimSpace(ms[i].text)]),
                      seen \cup {key})

\* The loop of Parse over the matches: seen is seenFunctions.
RECURSIVE CollectFunctions(_, _, _, _)
CollectFunctions(matches, i, fns, seen) ==
    IF i > Len(matches) THEN fns
    ELSE LET startLine == matches[i].startRow + 1
             endLine   == matches[i].endRow + 1
             key       == <<startLine, endLine>>
         IN  IF key \in seen
             THEN CollectFunctions(matches, i + 1, fns, seen)
             ELSE CollectFunctions(matches, i + 1,
                      Append(fns, [Name      |-> IF matches[i].name = <<>>
                                                 THEN Anonymous ELSE matches[i].name,
                                   StartLine |-> startLine,
                                   EndLine   |-> endLine,
                                   Content   |-> TrimSpace(matches[i].text)]),
                      seen \cup {key})

\* Parser.Parse: (functions, language, err)
Parse(path, content) ==
    IF GetConfig(path) = {}
    THEN [functions |-> <<>>, language |-> "", err |-> TRUE]
    ELSE LET config == CHOOSE c \in GetConfig(path) : TRUE
         IN  IF ~config.FunctionQuery
             THEN [functions |-> <<>>, language |-> config.Name, err |-> FALSE]
             ELSE IF config.Name \in QueryFails
             THEN [functions |-> <<>>, language |-> "", err |-> TRUE]
             ELSE [functions |-> CollectFunctions(QueryMatches(content), 1, <<>>, {}),
                   language  |-> config.Name,
                   err       |-> FALSE]

(***************************************************************************)
(* extractFromFile and ExtractModifiedFunctions.                           *)
(***************************************************************************)
\* ChangeTypeOf that takes a renamed file for a new one.
ChangeTypeOf_RenamedAdded(status) ==
    IF status \in {"added", "renamed"} THEN "added" ELSE "modified"

\* changeType of the functions of a file
ChangeTypeOf(status) ==
    IF status = "added" THEN "added" ELSE "modified"

\* The loop of extractFromFile over the functions of the file.
RECURSIVE FilterFunctions(_, _, _, _, _, _)
FilterFunctions(file, modifiedLines, fns, language, i, result) ==
    IF i > Len(fns) THEN result
    ELSE IF HasModifiedLineInRange(modifiedLines, fns[i].StartLine, fns[i].EndLine)
    THEN FilterFunctions(file, modifiedLines, fns, language, i + 1,
             Append(result,
                 [Name       |-> fns[i].Name,
                  StartLine  |-> fns[i].StartLine,
                  EndLine    |-> fns[i].EndLine,
                  Content    |-> fns[i].Content,
                  Diff       |-> ExtractDiffForRange(file.Patch, fns[i].StartLine,
                                                     fns[i].EndLine),
                  FilePath   |-> file.Path,
                  Language   |-> language,
                  ChangeType |-> ChangeTypeOf(file.Status)]))
    ELSE FilterFunctions(file, modifiedLines, fns, language, i + 1, result)

\* extractFromFile with the functions sorted by their start line.
extractFromFile_Sorted(file) ==
    LET fetched == GetFileContent(file.Path)
        parsedPatch == ParsePatch(file.Patch)
        parsedFile == Parse(file.Path, fetched.content)
        byLine == SortSeq(parsedFile.functions, LAMBDA a, b : a.StartLine < b.StartLine)
    IN  IF fetched.err \/ parsedPatch.err \/ parsedFile.err
        THEN [functions |-> <<>>, err |-> TRUE]
        ELSE [functions |-> FilterFunctions(file, parsedPatch.lines, byLine,
                                            parsedFile.language, 1, <<>>),
              err |-> FALSE]

\* extractFromFile: (functions, err)
extractFromFile(file) ==
    LET fetched == GetFileContent(file.Path)
    IN  IF fetched.err THEN [functions |-> <<>>, err |-> TRUE]
        ELSE LET parsedPatch == ParsePatch(file.Patch)
             IN  IF parsedPatch.err THEN [functions |-> <<>>, err |-> TRUE]
                 ELSE LET parsedFile == Parse(file.Path, fetched.content)
                      IN  IF parsedFile.err THEN [functions |-> <<>>, err |-> TRUE]
                          ELSE [functions |-> FilterFunctions(file, parsedPatch.lines,
                                                  parsedFile.functions,
                                                  parsedFile.language, 1, <<>>),
                                err |-> FALSE]

\* The loop of ExtractModifiedFunctions with a return in place of the
\* continue after a file's error.
RECURSIVE ExtractFiles_StopAtError(_, _, _, _)
ExtractFiles_StopAtError(c, fs, i, result) ==
    IF i > Len(fs) THEN [functions |-> result, err |-> FALSE]
    ELSE IF fs[i].Status = "deleted"
    THEN ExtractFiles_StopAtError(c, fs, i + 1, result)
    ELSE IF ~c.nil /\ ShouldIgnore(c, fs[i].Path)
    THEN ExtractFiles_StopAtError(c, fs, i + 1, result)
    ELSE IF ~IsSupported(fs[i].Path)
    THEN ExtractFiles_StopAtError(c, fs, i + 1, result)
    ELSE IF extractFromFile(fs[i]).err
    THEN [functions |-> result, err |-> FALSE]
    ELSE ExtractFiles_StopAtError(c, fs, i + 1, result \o extractFromFile(fs[i]).functions)

\* The loop of ExtractModifiedFunctions over the files.
RECURSIVE ExtractFiles(_, _, _, _)
ExtractFiles(c, fs, i, result) ==
    IF i > Len(fs) THEN [functions |-> result, err |-> FALSE]
    ELSE IF fs[i].Status = "deleted"
    THEN ExtractFiles(c, fs, i + 1, result)
    ELSE IF ~c.nil /\ ShouldIgnore(c, fs[i].Path)
    THEN ExtractFiles(c, fs, i + 1, result)
    ELSE IF ~IsSupported(fs[i].Path)
    THEN ExtractFiles(c, fs, i + 1, result)
    ELSE IF extractFromFile(fs[i]).err
    THEN ExtractFiles(c, fs, i + 1, result)
    ELSE ExtractFiles(c, fs, i + 1, result \o extractFromFile(fs[i]).functions)

ExtractModifiedFunctions(c, fs) == ExtractFiles(c, fs, 1, <<>>)

(***************************************************************************)
(* The correlator as a state machine: a changeset arrives and              *)
(* ExtractModifiedFunctions is called on it.                               *)
(***************************************************************************)
ModifiedFile(path, status, p) == [Path |-> path, Status |-> status, Patch |-> p]

\* The files of a changeset: the Go file in every status with every patch,
\* the vendored file added, renamed or deleted, and the files that are
\* skipped or fail whatever their patch is.
ModifiedFiles ==
    { ModifiedFile(PathMain, status, p) : status \in Statuses, p \in FilePatches }
      \cup { ModifiedFile(PathVendor, status, p) :
               status \in Statuses \ {"modified"}, p \in {PatchAdd23, PatchAdd3} }
      \cup { ModifiedFile(PathGone, status, PatchAdd3) : status \in {"modified", "deleted"} }
      \cup { ModifiedFile(PathDoc, "modified", PatchAdd3),
             ModifiedFile(PathBroken, "modified", PatchAdd3) }

\* The changesets: up to MaxFiles files, no path twice.
Changesets ==
    UNION { { fs \in [1..n -> ModifiedFiles] :
                \A i, j \in 1..n : i # j => fs[i].Path # fs[j].Path } : n \in 0..MaxFiles }

\* No configuration, or one that ignores the directory "v/".
Configs == { [nil |-> TRUE,  IgnorePaths |-> <<>>],
             [nil |-> FALSE, IgnorePaths |-> << <<"v", "/">> >>] }

InitExtract ==
    /\ op = "start"
    /\ files \in Changesets
    /\ cfg \in Configs
    /\ functions = <<>>
    /\ xerr = FALSE
    /\ IdleParse
    /\ IdleDiff
    /\ IdleHash
    /\ IdleLater

DoExtractModifiedFunctions ==
    /\ op = "start"
    /\ functions' = ExtractModifiedFunctions(cfg, files).functions
    /\ xerr' = ExtractModifiedFunctions(cfg, files).err
    /\ op' = "ExtractModifiedFunctions"
    /\ UNCHANGED <<files, cfg, parseVars, diffVars, hashVars, laterVars>>

NextExtract == DoExtractModifiedFunctions

SpecExtract == InitExtract /\ [][NextExtract]_vars

(***************************************************************************)
(* What the claims about the correlator speak of.                          *)
(***************************************************************************)
Extracted == op = "ExtractModifiedFunctions"

Range(s) == { s[i] : i \in 1..Len(s) }

\* The file is neither deleted, nor ignored by the configuration, nor of an
\* unsupported type, and its content fetch, patch parse and function parse
\* all succeed.
Contributes(c, file) ==
    /\ file.Status # "deleted"
    /\ ~(~c.nil /\ ShouldIgnore(c, file.Path))
    /\ IsSupported(file.Path)
    /\ ~GetFileContent(file.Path).err
    /\ ~ParsePatch(file.Patch).err
    /\ ~Parse(file.Path, GetFileContent(file.Path).content).err

\* The boundary list of the file.
Boundaries(file) == Parse(file.Path, GetFileContent(file.Path).content).functions

\* The indices of the boundaries that hold an added line of the patch.
Touched(file) ==
    { i \in 1..Len(Boundaries(file)) :
        \E a \in Range(ParsePatch(file.Patch).lines.Added) :
            Boundaries(file)[i].StartLine <= a /\ a <= Boundaries(file)[i].EndLine }

\* The records of the state that carry the path of the file.
RecordsOf(file) == SelectSeq(functions, LAMBDA r : r.FilePath = file.Path)

(***************************************************************************)
(* C6: for one file, extractFromFile emits exactly one ExtractedFunction   *)
(* for each function boundary b that holds an Added line of the file's     *)
(* patch in [b.StartLine, b.EndLine] and none for another boundary; the    *)
(* records come in the order of the boundary list (no sorting), with Name, *)
(* StartLine, EndLine and Content copied from the boundary, FilePath from  *)
(* the file and Diff = ExtractDiffForRange(patch, b.StartLine, b.EndLine). *)
(***************************************************************************)
C6_TouchedBoundariesInOrder ==
    Extracted =>
        \A n \in 1..Len(files) :
            Contributes(cfg, files[n]) =>
                LET file == files[n]
                    b    == Boundaries(file)
                    recs == RecordsOf(file)
                IN  /\ Len(recs) = Cardinality(Touched(file))
                    /\ \A k \in 1..Len(recs) :
                         LET i == Nth(Touched(file), k)
                         IN  /\ recs[k].Name      = b[i].Name
                             /\ recs[k].StartLine = b[i].StartLine
                             /\ recs[k].EndLine   = b[i].EndLine
                             /\ recs[k].Content   = b[i].Content
                             /\ recs[k].FilePath  = file.Path
                             /\ recs[k].Diff      = ExtractDiffForRange(file.Patch,
                                                        b[i].StartLine, b[i].EndLine)

\* A file with two touched boundaries, the later one first in the boundary
\* list, and one with a touched and an untouched boundary.
C6_Witness ==
    /\ Extracted
    /\ Len(files) = 2
    /\ Contributes(cfg, files[1])
    /\ Len(RecordsOf(files[1])) = 2
    /\ RecordsOf(files[1])[1].StartLine > RecordsOf(files[1])[2].StartLine
    /\ RecordsOf(files[1])[1].Diff # <<>>
    /\ Contributes(cfg, files[2])
    /\ Len(RecordsOf(files[2])) = 1

(***************************************************************************)
(* C7: every ExtractedFunction emitted for a file has ChangeType "added"   *)
(* if and only if the status of that file is "added", and "modified" for   *)
(* every other status ("renamed" too); no record has another ChangeType.   *)
(***************************************************************************)
C7_ChangeTypeFromStatus ==
    Extracted =>
        \A k \in 1..Len(functions) :
            /\ functions[k].ChangeType \in {"added", "modified"}
            /\ \A n \in 1..Len(files) :
                 files[n].Path = functions[k].FilePath =>
                    /\ functions[k].ChangeType = "added" <=> files[n].Status = "added"
                    /\ files[n].Status # "added" => functions[k].ChangeType = "modified"

\* Records of a renamed file and of an added file in one result.
C7_Witness ==
    /\ Extracted
    /\ \E n \in 1..Len(files) :
         files[n].Status = "renamed" /\ RecordsOf(files[n]) # <<>>
    /\ \E n \in 1..Len(files) :
         files[n].Status = "added" /\ RecordsOf(files[n]) # <<>>

(***************************************************************************)
(* C8: ExtractModifiedFunctions(files) always returns a nil error, and its *)
(* result is the concatenation, in the order of the file list, of the      *)
(* per-file results of exactly the files that are not deleted, not ignored *)
(* by the config, of a supported type and whose content fetch, patch parse *)
(* and function parse succeed; every other file contributes nothing and    *)
(* leaves the contribution of the others as it is; an empty outcome is a   *)
(* success.                                                                *)
(***************************************************************************)
RECURSIVE PerFileResults(_, _)
PerFileResults(c, fs) ==
    IF fs = <<>> THEN <<>>
    ELSE (IF Contributes(c, Head(fs)) THEN extractFromFile(Head(fs)).functions ELSE <<>>)
         \o PerFileResults(c, Tail(fs))

C8_BatchNeverAborts ==
    Extracted =>
        /\ xerr = FALSE
        /\ functions = PerFileResults(cfg, files)

\* A file that fails ahead of a file that yields records.
C8_Witness ==
    /\ Extracted
    /\ Len(files) = 2
    /\ files[1].Status # "deleted"
    /\ IsSupported(files[1].Path)
    /\ extractFromFile(files[1]).err
    /\ Contributes(cfg, files[2])
    /\ functions # <<>>
    /\ xerr = FALSE

(***************************************************************************)
(* The fingerprint engine: cache.FunctionHash.                             *)
(***************************************************************************)
HashLength == 12    \* const HashLength
Size == 32          \* sha256.Size, the bytes of a digest

\* []byte(data): the UTF-8 bytes of the characters the model uses.
ByteOf(c) ==
    CASE c = "+" -> 43  [] c = ":" -> 58
      [] c = "a" -> 97  [] c = "b" -> 98  [] c = "c" -> 99
      [] c = "x" -> 120 [] c = "y" -> 121 [] c = "z" -> 122
      [] c = "1" -> 49  [] c = "2" -> 50  [] c = "3" -> 51

Bytes(data) == [i \in 1..Len(data) |-> ByteOf(data[i])]

\* sha256.Sum256 is a fixed function from byte strings to Size bytes.  The
\* model puts a polynomial digest in its place: byte k of the digest folds
\* the input from the seed 7 * k.
RECURSIVE DigestByte(_, _, _)
DigestByte(bytes, i, h) ==
    IF i > Len(bytes) THEN h
    ELSE DigestByte(bytes, i + 1, (h * 31 + bytes[i]) % 256)

Sum256(bytes) == [k \in 1..Size |-> DigestByte(bytes, 1, (7 * k) % 256)]

\* hex.EncodeToString: two lowercase digits for every byte
HexDigits == <<"0", "1", "2", "3", "4", "5", "6", "7",
               "8", "9", "a", "b", "c", "d", "e", "f">>

EncodeToString(bytes) ==
    [i \in 1..(2 * Len(bytes)) |->
        IF i % 2 = 1 THEN HexDigits[(bytes[(i + 1) \div 2] \div 16) + 1]
                     ELSE HexDigits[(bytes[i \div 2] % 16) + 1]]

\* HashInput with the start line among the fields.
HashInput_WithStartLine(fn) ==
    fn.FilePath \o <<":">> \o fn.Name \o <<":">> \o fn.Content \o <<":">> \o fn.Diff
        \o <<":">> \o <<IF fn.StartLine = 1 THEN "1" ELSE "2">>

\* data := fn.FilePath + ":" + fn.Name + ":" + fn.Content + ":" + fn.Diff
HashInput(fn) ==
    fn.FilePath \o <<":">> \o fn.Name \o <<":">> \o fn.Content \o <<":">> \o fn.Diff

FunctionHash(fn) ==
    SubSeq(EncodeToString(Sum256(Bytes(HashInput(fn)))), 1, HashLength)

(***************************************************************************)
(* The fingerprint engine as a state machine: two extracted functions, and *)
(* FunctionHash called on either, in any order and any number of times.    *)
(***************************************************************************)
HashPaths    == { <<"a">>, <<"a", ":", "b">> }
HashNames    == { <<"c">>, <<"b", ":", "c">> }
HashContents == { <<"x">>, <<"x", ":", "+", "y">> }
HashDiffs    == { <<"+", "z">>, <<"+", "y", ":", "+", "z">> }

\* <<StartLine, EndLine, Language, ChangeType>> of the records: one choice
\* and its variations in a single field.
HashOthers == { <<1, 2, "go", "modified">>, <<2, 2, "go", "modified">>,
                <<1, 3, "go", "modified">>, <<1, 2, "python", "modified">>,
                <<1, 2, "go", "added">> }

ExtractedFunctions ==
    { [Name |-> n, StartLine |-> o[1], EndLine |-> o[2], Content |-> c, Diff |-> d,
       FilePath |-> p, Language |-> o[3], ChangeType |-> o[4]] :
        n \in HashNames, c \in HashContents, d \in HashDiffs, p \in HashPaths,
        o \in HashOthers }

InitHash ==
    /\ op = "start"
    /\ fnA \in ExtractedFunctions
    /\ fnB \in ExtractedFunctions
    /\ hashA = <<>>
    /\ hashB = <<>>
    /\ IdleDiff
    /\ IdleExtract
    /\ IdleLater

DoFunctionHashA ==
    /\ hashA' = FunctionHash(fnA)
    /\ op' = "FunctionHash"
    /\ UNCHANGED <<fnA, fnB, hashB, diffVars, extVars, laterVars>>

DoFunctionHashB ==
    /\ hashB' = FunctionHash(fnB)
    /\ op' = "FunctionHash"
    /\ UNCHANGED <<fnA, fnB, hashA, diffVars, extVars, laterVars>>

NextHash == DoFunctionHashA \/ DoFunctionHashB

SpecHash == InitHash /\ [][NextHash]_vars

(***************************************************************************)
(* What the claims about the fingerprint speak of.                         *)
(***************************************************************************)
BothHashed == hashA # <<>> /\ hashB # <<>>

\* The four fields of a record that the fingerprint is made of.
Tuple(fn) == <<fn.FilePath, fn.Name, fn.Content, fn.Diff>>

IsFingerprint(h) ==
    /\ Len(h) = 12
    /\ \A i \in 1..Len(h) :
         h[i] \in {"0", "1", "2", "3", "4", "5", "6", "7", "8", "9",
                   "a", "b", "c", "d", "e", "f"}

(***************************************************************************)
(* C9: FunctionHash is a pure, deterministic function of (FilePath, Name,  *)
(* Content, Diff): two calls on records that agree on these four fields    *)
(* return the same string whatever StartLine, EndLine, Language and        *)
(* ChangeType are, and the result always has exactly 12 characters, each a *)
(* lowercase hexadecimal digit.                                            *)
(***************************************************************************)
C9_HashOfFourFields ==
    /\ hashA # <<>> => IsFingerprint(hashA)
    /\ hashB # <<>> => IsFingerprint(hashB)
    /\ (BothHashed /\ Tuple(fnA) = Tuple(fnB)) => hashA = hashB

\* Records that agree on the four fields and differ in their start line.
C9_Witness ==
    /\ BothHashed
    /\ Tuple(fnA) = Tuple(fnB)
    /\ fnA.StartLine # fnB.StartLine
    /\ hashA = hashB
    /\ IsFingerprint(hashA)

(***************************************************************************)
(* C10: the four fingerprint fields are joined with an unambiguous         *)
(* separator, so that a change to one or more of path, name, content or    *)
(* scoped diff changes the byte string that is hashed: two distinct        *)
(* (FilePath, Name, Content, Diff) tuples never produce the same pre-hash  *)
(* input.                                                                  *)
(***************************************************************************)
C10_DistinctTuplesDistinctInput ==
    (BothHashed /\ Tuple(fnA) # Tuple(fnB)) => HashInput(fnA) # HashInput(fnB)

(***************************************************************************)
(* The hash marker: cache.FormatHashMarker and cache.ExtractHash.          *)
(***************************************************************************)
\* const HashPrefix = "<!-- ainspector:fn:"
HashPrefix == <<"<", "!", "-", "-", " ", "a", "i", "n", "s", "p", "e", "c", "t", "o", "r", ":", "f", "n", ":">>
\* const HashSuffix = " -->"
HashSuffix == <<" ", "-", "-", ">">>

\* FormatHashMarker that ends the marker with "-->".
FormatHashMarker_NoBlank(hash) == HashPrefix \o hash \o <<"-", "-", ">">>

FormatHashMarker(hash) == HashPrefix \o hash \o HashSuffix

\* A character class that takes the capital digits too.
HexClass_AnyCase(c) ==
    c \in {"0", "1", "2", "3", "4", "5", "6", "7", "8", "9",
           "a", "b", "c", "d", "e", "f", "A", "B", "C", "D", "E", "F"}

\* [a-f0-9] of hashRegex
HexClass(c) ==
    c \in {"0", "1", "2", "3", "4", "5", "6", "7", "8", "9",
           "a", "b", "c", "d", "e", "f"}

\* hashRegex matches the text from position i on:
\* `<!-- ainspector:fn:([a-f0-9]{12}) -->`
RegexMatchesAt(text, i) ==
    /\ i + Len(HashPrefix) + HashLength + Len(HashSuffix) - 1 <= Len(text)
    /\ SubSeq(text, i, i + Len(HashPrefix) - 1) = HashPrefix
    /\ \A k \in 0..(HashLength - 1) : HexClass(text[i + Len(HashPrefix) + k])
    /\ SubSeq(text, i + Len(HashPrefix) + HashLength,
              i + Len(HashPrefix) + HashLength + Len(HashSuffix) - 1) = HashSuffix

\* hashRegex.FindStringSubmatch: the leftmost match and its group, or nil
RECURSIVE FindStringSubmatch(_, _)
FindStringSubmatch(text, i) ==
    IF i > Len(text) THEN <<>>
    ELSE IF RegexMatchesAt(text, i)
    THEN << SubSeq(text, i, i + Len(HashPrefix) + HashLength + Len(HashSuffix) - 1),
            SubSeq(text, i + Len(HashPrefix), i + Len(HashPrefix) + HashLength - 1) >>
    ELSE FindStringSubmatch(text, i + 1)

ExtractHash(commentBody) ==
    LET matches == FindStringSubmatch(commentBody, 1)
    IN  IF Len(matches) < 2 THEN <<>> ELSE matches[2]

(***************************************************************************)
(* The marker as a state machine: a hash is formatted, a comment body is   *)
(* written with or without the marker, and ExtractHash reads the body.     *)
(***************************************************************************)
HashAbc == <<"a", "b", "c", "1", "2", "3", "d", "e", "f", "4", "5", "6">>
HashFed == <<"f", "e", "d", "c", "b", "a", "9", "8", "7", "6", "5", "4">>

\* Valid hashes, and groups that are empty, short, long, in capitals or
\* with a letter behind f.
MarkerHashes ==
    { HashAbc, <<"0", "f", "9", "e", "8", "d", "7", "c", "6", "b", "5", "a">>,
      <<>>, <<"a", "b", "c", "1", "2", "3">>, <<"a", "b", "c", "1", "2", "3", "d", "e", "f", "4", "5", "6", "7">>,
      <<"A", "B", "C", "1", "2", "3", "D", "E", "F", "4", "5", "6">>, <<"a", "b", "c", "1", "2", "3", "d", "e", "f", "4", "5", "g">> }

\* Text without a marker: nothing, words, a marker of another prefix.
PlainTexts ==
    { <<>>, <<"x", " ">>, <<NL, NL>>,
      <<"<", "!", "-", "-", " ", "o", "t", "h", "e", "r", ":", "f", "n", ":", "a", "b", "c", "1", "2", "3", "d", "e", "f", "4", "5", "6", " ", "-", "-", ">">> }

\* Text around a marker: plain text, or the marker of HashFed.
AroundTexts == PlainTexts \cup { HashPrefix \o HashFed \o HashSuffix \o <<NL>> }

InitMark ==
    /\ op = "start"
    /\ mkHash \in MarkerHashes
    /\ mkAround \in AroundTexts \X AroundTexts
    /\ mkMarker = <<>>
    /\ mkBody = <<>>
    /\ mkFound = <<>>
    /\ IdleDiff
    /\ IdleExtract
    /\ IdleHash
    /\ IdleTracker
    /\ IdleLLM
    /\ IdleRun

DoFormatHashMarker ==
    /\ op = "start"
    /\ mkMarker' = FormatHashMarker(mkHash)
    /\ op' = "FormatHashMarker"
    /\ UNCHANGED <<mkHash, mkAround, mkBody, mkFound, diffVars, extVars, hashVars, trkVars, llmVars, runVars>>

\* The comment is written: the text with the marker in it.
DoWriteMarked ==
    /\ op = "FormatHashMarker"
    /\ mkBody' = mkAround[1] \o mkMarker \o mkAround[2]
    /\ op' = "WriteMarked"
    /\ UNCHANGED <<mkHash, mkAround, mkMarker, mkFound, diffVars, extVars, hashVars, trkVars, llmVars, runVars>>

\* The comment is written without the marker.
DoWritePlain ==
    /\ op = "FormatHashMarker"
    /\ mkBody' = mkAround[1] \o mkAround[2]
    /\ op' = "WritePlain"
    /\ UNCHANGED <<mkHash, mkAround, mkMarker, mkFound, diffVars, extVars, hashVars, trkVars, llmVars, runVars>>

DoExtractHash ==
    /\ op \in {"WriteMarked", "WritePlain"}
    /\ mkFound' = ExtractHash(mkBody)
    /\ op' = IF op = "WriteMarked" THEN "ExtractHashMarked" ELSE "ExtractHashPlain"
    /\ UNCHANGED <<mkHash, mkAround, mkMarker, mkBody, diffVars, extVars, hashVars, trkVars, llmVars, runVars>>

NextMark == DoFormatHashMarker \/ DoWriteMarked \/ DoWritePlain \/ DoExtractHash

SpecMark == InitMark /\ [][NextMark]_vars

(***************************************************************************)
(* What the claims about the marker speak of.                              *)
(***************************************************************************)
Extracted12 == op \in {"ExtractHashMarked", "ExtractHashPlain"}

\* The marker of h, written out.
MarkerText(h) ==
    <<"<", "!", "-", "-", " ", "a", "i", "n", "s", "p", "e", "c", "t", "o", "r", ":", "f", "n", ":">>
        \o h \o <<" ", "-", "-", ">">>

\* The positions of the text where a marker with a group of 12 lowercase
\* hexadecimal digits begins.
MarkerPositions(text) ==
    { i \in 1..Len(text) :
        /\ i + 34 <= Len(text)
        /\ SubSeq(text, i, i + 34) = MarkerText(SubSeq(text, i + 19, i + 30))
        /\ IsFingerprint(SubSeq(text, i + 19, i + 30)) }

(***************************************************************************)
(* C11: FormatHashMarker(h) is exactly "<!-- ainspector:fn:" + h + " -->", *)
(* and for every valid fingerprint h (12 lowercase hex characters)         *)
(* ExtractHash(FormatHashMarker(h)) = h, also when the marker stands at    *)
(* the start, in the middle or at the end of surrounding text that holds   *)
(* no other marker.                                                        *)
(***************************************************************************)
C11_MarkerRoundTrip ==
    /\ op # "start" => mkMarker = MarkerText(mkHash)
    /\ ( /\ op = "ExtractHashMarked"
         /\ IsFingerprint(mkHash)
         /\ mkAround[1] \in PlainTexts
         /\ mkAround[2] \in PlainTexts ) => mkFound = mkHash

\* A valid hash whose marker stands in the middle of other text.
C11_Witness ==
    /\ op = "ExtractHashMarked"
    /\ IsFingerprint(mkHash)
    /\ mkAround[1] \in PlainTexts \ {<<>>}
    /\ mkAround[2] \in PlainTexts \ {<<>>}
    /\ mkBody = mkAround[1] \o MarkerText(mkHash) \o mkAround[2]
    /\ mkFound = mkHash

(***************************************************************************)
(* C12: ExtractHash(text) returns the group of 12 lowercase hex characters *)
(* of the first occurrence of the marker syntax in text, and the empty     *)
(* "not found" value when the text has no marker, a marker with another    *)
(* prefix, or a hash group that is not exactly 12 lowercase hex characters *)
(* (shorter, longer, empty, or with other characters).                     *)
(***************************************************************************)
C12_FirstMarkerOrNothing ==
    Extracted12 =>
        /\ MarkerPositions(mkBody) = {} => mkFound = <<>>
        /\ MarkerPositions(mkBody) # {} =>
              LET i == CHOOSE j \in MarkerPositions(mkBody) :
                           \A k \in MarkerPositions(mkBody) : j <= k
              IN  mkFound = SubSeq(mkBody, i + 19, i + 30)
        /\ ( /\ mkAround[1] \in PlainTexts
             /\ mkAround[2] \in PlainTexts
             /\ op = "ExtractHashPlain" \/ ~IsFingerprint(mkHash) ) => mkFound = <<>>

\* A body with two markers: the group of the first one is returned.
C12_Witness ==
    /\ Extracted12
    /\ Cardinality(MarkerPositions(mkBody)) = 2
    /\ mkHash = HashAbc
    /\ mkFound = HashFed
    /\ mkFound # mkHash

(***************************************************************************)
(* The review tracker: cache.Tracker.                                      *)
(***************************************************************************)
\* NewTracker: reviewed = make(map[string]bool)
NewTracker == {}

\* The loop of LoadFromComments with the hash taken whether empty or not.
LoadComment_AnyHash(t, c) == t \cup {c.Hash}

\* The loop of LoadFromComments with the map made anew for every comment.
LoadComment_Replace(t, c) == IF c.Hash # <<>> THEN {c.Hash} ELSE {}

\* if c.Hash != "" { t.reviewed[c.Hash] = true }
LoadComment(t, c) == IF c.Hash # <<>> THEN t \cup {c.Hash} ELSE t

RECURSIVE LoadFromComments(_, _)
LoadFromComments(t, comments) ==
    IF comments = <<>> THEN t
    ELSE LoadFromComments(LoadComment(t, Head(comments)), Tail(comments))

\* IsReviewed that reads the reviewed-set for the name of the function.
IsReviewed_ByName(t, fn) == fn.Name \in t

\* hash := FunctionHash(fn); return t.reviewed[hash]
IsReviewed(t, fn) == FunctionHash(fn) \in t

\* FilterUnreviewed that keeps one function of a kind.
RECURSIVE FilterUnreviewed_Once(_, _, _, _)
FilterUnreviewed_Once(t, fns, i, result) ==
    IF i > Len(fns) THEN result
    ELSE IF ~IsReviewed(t, fns[i]) /\ \A k \in 1..Len(result) : result[k] # fns[i]
    THEN FilterUnreviewed_Once(t, fns, i + 1, Append(result, fns[i]))
    ELSE FilterUnreviewed_Once(t, fns, i + 1, result)

\* The loop of FilterUnreviewed over the functions.
RECURSIVE FilterLoop(_, _, _, _)
FilterLoop(t, fns, i, result) ==
    IF i > Len(fns) THEN result
    ELSE IF ~IsReviewed(t, fns[i])
    THEN FilterLoop(t, fns, i + 1, Append(result, fns[i]))
    ELSE FilterLoop(t, fns, i + 1, result)

FilterUnreviewed(t, fns) == FilterLoop(t, fns, 1, <<>>)

\* len(t.reviewed)
ReviewedCount(t) == Cardinality(t)

(***************************************************************************)
(* The tracker as a state machine: a fresh tracker, and its four methods   *)
(* called in any order.                                                    *)
(***************************************************************************)
MaxFns == 3         \* functions of a list handed to FilterUnreviewed
MaxComments == 2    \* comments of a list handed to LoadFromComments

ExtractedFunction(path, name, content, d, startLine) ==
    [Name |-> name, StartLine |-> startLine, EndLine |-> 3, Content |-> content,
     Diff |-> d, FilePath |-> path, Language |-> "go", ChangeType |-> "modified"]

\* Two functions of one file, and the first one moved down a line.
FnOne   == ExtractedFunction(<<"a">>, <<"c">>, <<"x">>, <<"+", "z">>, 1)
FnTwo   == ExtractedFunction(<<"a">>, <<"b">>, <<"y">>, <<"+", "z">>, 2)
FnMoved == ExtractedFunction(<<"a">>, <<"c">>, <<"x">>, <<"+", "z">>, 2)
TrackerFns == { FnOne, FnTwo, FnMoved }

FunctionLists == UNION { [1..n -> TrackerFns] : n \in 0..MaxFns }

ReviewedComment(hash, body) == [Path |-> <<"a">>, Line |-> 1, Hash |-> hash, Body |-> body]

\* The comment bodies: text without marker, and text that ends in the
\* marker of a function.
CommentBodies ==
    { <<"x", " ">>,
      <<"x", NL, NL>> \o FormatHashMarker(FunctionHash(FnOne)),
      <<"x", NL, NL>> \o FormatHashMarker(FunctionHash(FnTwo)) }

\* The comments handed to LoadFromComments: the ones runReview builds, with
\* Hash: cache.ExtractHash(c.Body), and one of the tests of the package,
\* with a hash that its body does not hold.
ReviewedComments ==
    { ReviewedComment(ExtractHash(b), b) : b \in CommentBodies }
      \cup { ReviewedComment(HashAbc, <<"x", " ">>) }

CommentLists == UNION { [1..n -> ReviewedComments] : n \in 0..MaxComments }

InitTracker ==
    /\ op = "start"
    /\ reviewed = NewTracker
    /\ loaded = {}
    /\ trkFns \in FunctionLists
    /\ trkOut = <<>>
    /\ IdleDiff
    /\ IdleExtract
    /\ IdleHash
    /\ IdleMark
    /\ IdleLLM
    /\ IdleRun

DoLoadFromComments ==
    \E comments \in CommentLists :
        /\ reviewed' = LoadFromComments(reviewed, comments)
        /\ loaded' = loaded \cup { comments[i] : i \in 1..Len(comments) }
        /\ trkOut' = <<>>
        /\ op' = "LoadFromComments"
        /\ UNCHANGED <<trkFns, diffVars, extVars, hashVars, markVars, llmVars, runVars>>

DoIsReviewed ==
    \E fn \in TrackerFns :
        /\ trkOut' = <<fn, IsReviewed(reviewed, fn)>>
        /\ op' = "IsReviewed"
        /\ UNCHANGED <<reviewed, loaded, trkFns, diffVars, extVars, hashVars, markVars, llmVars, runVars>>

DoFilterUnreviewed ==
    /\ trkOut' = FilterUnreviewed(reviewed, trkFns)
    /\ op' = "FilterUnreviewed"
    /\ UNCHANGED <<reviewed, loaded, trkFns, diffVars, extVars, hashVars, markVars, llmVars, runVars>>

DoReviewedCount ==
    /\ trkOut' = ReviewedCount(reviewed)
    /\ op' = "ReviewedCount"
    /\ UNCHANGED <<reviewed, loaded, trkFns, diffVars, extVars, hashVars, markVars, llmVars, runVars>>

NextTracker ==
    DoLoadFromComments \/ DoIsReviewed \/ DoFilterUnreviewed \/ DoReviewedCount

SpecTracker == InitTracker /\ [][NextTracker]_vars

C14_IsReviewedIsMembership ==
    op = "IsReviewed" =>
        /\ trkOut[2] <=> FunctionHash(trkOut[1]) \in reviewed
        /\ loaded = {} => ~trkOut[2]
        /\ (\E c \in loaded : c.Hash = FunctionHash(trkOut[1])) => trkOut[2]

\* The moved function is reviewed once the comment on the first is loaded.
C14_Witness ==
    /\ op = "IsReviewed"
    /\ trkOut = <<FnMoved, TRUE>>
    /\ \E c \in loaded : c.Hash = FunctionHash(FnOne)
    /\ FunctionHash(FnTwo) \notin reviewed

(***************************************************************************)
(* C15: FilterUnreviewed(functions) returns a sub-sequence of its input    *)
(* that keeps the order and the multiplicity of the input and holds        *)
(* exactly the functions whose fingerprint is not in the reviewed-set.     *)
(***************************************************************************)
Unreviewed(t, fns) == { i \in 1..Len(fns) : FunctionHash(fns[i]) \notin t }

C15_FilterKeepsUnreviewed ==
    op = "FilterUnreviewed" =>
        /\ Len(trkOut) = Cardinality(Unreviewed(reviewed, trkFns))
        /\ \A k \in 1..Len(trkOut) : trkOut[k] = trkFns[Nth(Unreviewed(reviewed, trkFns), k)]

\* A function twice in the input, around a reviewed one.
C15_Witness ==
    /\ op = "FilterUnreviewed"
    /\ trkFns = <<FnTwo, FnOne, FnTwo>>
    /\ FunctionHash(FnOne) \in reviewed
    /\ trkOut = <<FnTwo, FnTwo>>

(***************************************************************************)
(* C20: the reviewed-set is written by LoadFromComments only, which only   *)
(* adds fingerprints: IsReviewed, FilterUnreviewed and ReviewedCount leave *)
(* the set, and FilterUnreviewed its input slice, as they are; a           *)
(* fingerprint once reviewed stays reviewed and ReviewedCount never        *)
(* decreases.                                                              *)
(***************************************************************************)
C20_OnlyLoadAdds ==
    [][ /\ reviewed \subseteq reviewed'
        /\ ReviewedCount(reviewed') >= ReviewedCount(reviewed)
        /\ op' \in {"IsReviewed", "FilterUnreviewed", "ReviewedCount"} =>
              reviewed' = reviewed
        /\ op' = "FilterUnreviewed" => trkFns' = trkFns ]_vars

\* A function filtered out of a list that stays as it was.
C20_Witness ==
    /\ op = "FilterUnreviewed"
    /\ Cardinality(reviewed) = 2
    /\ Len(trkFns) = 3
    /\ Len(trkOut) < 3

(***************************************************************************)
(* The review: llm.ReviewFunctions.  client.Complete is the LLM service:   *)
(* a call returns an error or a review text.  A review text is carried     *)
(* with what json.Unmarshal makes of it: whether it holds a JSON object    *)
(* of the ReviewResponse format, and the issues of that object.            *)
(***************************************************************************)
LGTMMarker == <<"L", "G", "T", "M">>

Suggestion(line, description, code) ==
    [Line |-> line, Description |-> description, Code |-> code]

Completion(review, json, issues, error) ==
    [review |-> review, json |-> json, issues |-> issues, err |-> error]

\* What client.Complete returns: an error; "LGTM" and a new line; a JSON
\* object with an issue and a suggested code; a JSON object with an issue
\* whose description quotes a hash marker; text that is neither.
CompleteFails  == Completion(<<>>, FALSE, <<>>, <<"e">>)
CompleteLGTM   == Completion(LGTMMarker \o <<NL>>, FALSE, <<>>, <<>>)
CompleteIssue  == Completion(<<"{", "d", "}">>, TRUE,
                             <<Suggestion(1, <<"d">>, <<"s">>)>>, <<>>)
CompleteQuote  == Completion(<<"{", "q", "}">>, TRUE,
                             <<Suggestion(2, FormatHashMarker(HashAbc), <<>>)>>, <<>>)
CompleteProse  == Completion(<<"o", "k">>, FALSE, <<>>, <<>>)
Completions == { CompleteFails, CompleteLGTM, CompleteIssue, CompleteQuote, CompleteProse }

\* parseReviewResponse: nil for LGTM and for text without a JSON object,
\* else the issues of the object
parseReviewResponse(response) ==
    IF TrimSpace(response.review) = LGTMMarker THEN <<>>
    ELSE IF response.json THEN response.issues
    ELSE <<>>

ReviewResult(fn, suggestions, rawReview, error) ==
    [Function |-> fn, Suggestions |-> suggestions, RawReview |-> rawReview,
     Error |-> error]

\* The loop of ReviewFunctions with a break in place of the continue after
\* a failed call.
RECURSIVE ReviewLoop_Break(_, _, _, _, _)
ReviewLoop_Break(fns, oracle, i, results, calls) ==
    IF i > Len(fns) THEN [results |-> results, calls |-> calls]
    ELSE IF oracle[i].err # <<>>
    THEN [results |-> Append(results, ReviewResult(fns[i], <<>>, <<>>, oracle[i].err)),
          calls   |-> Append(calls, fns[i])]
    ELSE ReviewLoop_Break(fns, oracle, i + 1,
             Append(results, ReviewResult(fns[i], parseReviewResponse(oracle[i]),
                                          oracle[i].review, <<>>)),
             Append(calls, fns[i]))

\* The loop of ReviewFunctions: call i of client.Complete is the call for
\* function i.
RECURSIVE ReviewLoop(_, _, _, _, _)
ReviewLoop(fns, oracle, i, results, calls) ==
    IF i > Len(fns) THEN [results |-> results, calls |-> calls]
    ELSE IF oracle[i].err # <<>>
    THEN ReviewLoop(fns, oracle, i + 1,
             Append(results, ReviewResult(fns[i], <<>>, <<>>, oracle[i].err)),
             Append(calls, fns[i]))
    ELSE ReviewLoop(fns, oracle, i + 1,
             Append(results, ReviewResult(fns[i], parseReviewResponse(oracle[i]),
                                          oracle[i].review, <<>>)),
             Append(calls, fns[i]))

\* ReviewFunctions: the results, and the calls made on the way
ReviewFunctions(fns, oracle) == ReviewLoop(fns, oracle, 1, <<>>, <<>>)

\* if r.Error != nil { return false }; return len(r.Suggestions) > 0
HasIssues(r) == IF r.Error # <<>> THEN FALSE ELSE Len(r.Suggestions) > 0

(***************************************************************************)
(* The review as a state machine: a list of functions and an LLM service   *)
(* whose answers are fixed in advance, and ReviewFunctions called on them. *)
(***************************************************************************)
Oracles == [1..MaxFns -> Completions]

InitLLM ==
    /\ op = "start"
    /\ llmFns \in FunctionLists
    /\ llmOracle \in Oracles
    /\ llmCalls = <<>>
    /\ llmResults = <<>>
    /\ IdleDiff
    /\ IdleExtract
    /\ IdleHash
    /\ IdleMark
    /\ IdleTracker
    /\ IdleRun

DoReviewFunctions ==
    /\ op = "start"
    /\ llmResults' = ReviewFunctions(llmFns, llmOracle).results
    /\ llmCalls' = ReviewFunctions(llmFns, llmOracle).calls
    /\ op' = "ReviewFunctions"
    /\ UNCHANGED <<llmFns, llmOracle, diffVars, extVars, hashVars, markVars, trkVars, runVars>>

NextLLM == DoReviewFunctions

SpecLLM == InitLLM /\ [][NextLLM]_vars

(***************************************************************************)
(* C19: ReviewFunctions returns exactly one ReviewResult per input         *)
(* function, in input order, each with its input function unchanged; when  *)
(* the LLM call for a function fails, that result has Error set and an     *)
(* empty RawReview, the LLM is still called for every later function, and  *)
(* no call is made for an empty input list.                                *)
(***************************************************************************)
C19_OneResultPerFunction ==
    op = "ReviewFunctions" =>
        /\ Len(llmResults) = Len(llmFns)
        /\ \A i \in 1..Len(llmFns) :
             /\ llmResults[i].Function = llmFns[i]
             /\ llmOracle[i].err # <<>> =>
                   /\ llmResults[i].Error # <<>>
                   /\ llmResults[i].RawReview = <<>>
        /\ llmCalls = llmFns
        /\ llmFns = <<>> => llmCalls = <<>> /\ llmResults = <<>>

\* The first call fails and the two behind it are made and answered.
C19_Witness ==
    /\ op = "ReviewFunctions"
    /\ Len(llmFns) = 3
    /\ llmOracle[1].err # <<>>
    /\ llmResults[1].Error # <<>>
    /\ Len(llmCalls) = 3
    /\ llmResults[2].RawReview # <<>>
    /\ llmResults[3].Error = <<>>

(***************************************************************************)
(* The review command: runReview.  One run takes the --force flag, the     *)
(* functions extracted from the pull request, the answers of the LLM and   *)
(* the comments found on the pull request; it may post new comments.       *)
(***************************************************************************)
\* provider.ReviewComment
ReviewComment(path, line, body, suggestion) ==
    [Path |-> path, Line |-> line, Body |-> body, Suggestion |-> suggestion]

\* for _, suggestion := range result.Suggestions { ... }
RECURSIVE SuggestionComments(_, _)
SuggestionComments(result, k) ==
    IF k > Len(result.Suggestions) THEN <<>>
    ELSE <<ReviewComment(result.Function.FilePath, result.Suggestions[k].Line,
               result.Suggestions[k].Description \o <<NL, NL>>
                   \o FormatHashMarker(FunctionHash(result.Function)),
               result.Suggestions[k].Code)>>
         \o SuggestionComments(result, k + 1)

\* A variant that leaves a comment with the marker alone for a result
\* without issues.
RECURSIVE ResultComments_MarksAll(_, _)
ResultComments_MarksAll(results, i) ==
    IF i > Len(results) THEN <<>>
    ELSE (IF HasIssues(results[i]) THEN SuggestionComments(results[i], 1)
          ELSE <<ReviewComment(results[i].Function.FilePath,
                               results[i].Function.StartLine,
                               FormatHashMarker(FunctionHash(results[i].Function)),
                               <<>>)>>)
         \o ResultComments_MarksAll(results, i + 1)

\* for _, result := range results { if !result.HasIssues() { continue } ... }
RECURSIVE ResultComments(_, _)
ResultComments(results, i) ==
    IF i > Len(results) THEN <<>>
    ELSE (IF HasIssues(results[i]) THEN SuggestionComments(results[i], 1) ELSE <<>>)
         \o ResultComments(results, i + 1)

\* The backquote of a code fence; the character cannot stand in a string of
\* this notation and is written as an apostrophe.
BQ == "'"

\* The body CreateReview posts for a comment: the suggested code, if any,
\* goes in a suggestion block behind the body.
PostedBody(c) ==
    IF c.Suggestion # <<>>
    THEN c.Body \o <<NL, NL, BQ, BQ, BQ, "s", "u", "g", "g", "e", "s", "t", "i", "o", "n", NL>>
                \o c.Suggestion \o <<NL, BQ, BQ, BQ>>
    ELSE c.Body

\* The comments of the pull request as GetReviewComments lists them.
RECURSIVE SeqOf(_)
SeqOf(S) ==
    IF S = {} THEN <<>>
    ELSE LET b == CHOOSE x \in S : TRUE IN <<b>> \o SeqOf(S \ {b})

\* reviewedComments[i] = ReviewedComment{..., Hash: ExtractHash(c.Body), Body: c.Body}
RECURSIVE reviewedComments(_)
reviewedComments(existingComments) ==
    IF existingComments = <<>> THEN <<>>
    ELSE <<ReviewedComment(ExtractHash(Head(existingComments)), Head(existingComments))>>
         \o reviewedComments(Tail(existingComments))

\* functionsToReview that filters whether or not --force is set.
functionsToReview_AlwaysFilter(forceReview, fetchFails, fns, existing) ==
    IF fetchFails THEN fns
    ELSE CHOOSE kept \in
           { FilterUnreviewed(tracker, fns) :
               tracker \in { LoadFromComments(NewTracker,
                                              reviewedComments(SeqOf(existing))) } } : TRUE

\* functionsToReview that filters by the comments although the fetch failed.
functionsToReview_IgnoresFetchError(forceReview, fetchFails, fns, existing) ==
    IF forceReview THEN fns
    ELSE CHOOSE kept \in
           { FilterUnreviewed(tracker, fns) :
               tracker \in { LoadFromComments(NewTracker,
                                              reviewedComments(SeqOf(existing))) } } : TRUE

\* functionsToReview := functions; if !forceReview { ... }
functionsToReview(forceReview, fetchFails, fns, existing) ==
    IF forceReview THEN fns
    ELSE IF fetchFails THEN fns
    ELSE CHOOSE kept \in
           { FilterUnreviewed(tracker, fns) :
               tracker \in { LoadFromComments(NewTracker,
                                              reviewedComments(SeqOf(existing))) } } : TRUE

\* What may go wrong around a run: loading the configuration, detecting the
\* CI or listing the modified files fails; GetReviewComments fails;
\* LLM_API_KEY is not set; CreateReview fails.
RunEnvs == { "ok", "startFails", "fetchFails", "noKey", "createFails" }

Outcome(forceReview, fns, asked, fetched, toReview, calls, results, posted, error) ==
    [err |-> error, functions |-> fns, fetched |-> fetched, results |-> results,
     calls |-> calls, asked |-> asked, toReview |-> toReview, posted |-> posted,
     force |-> forceReview]

\* Lines 160 to 220: the key, the review, the comments and their posting.
reviewAndPost(forceReview, env, fns, asked, fetched, toReview, rv) ==
    IF env = "noKey"
    THEN Outcome(forceReview, fns, asked, fetched, toReview, <<>>, <<>>, {}, "key")
    ELSE IF Len(ResultComments(rv.results, 1)) = 0
    THEN Outcome(forceReview, fns, asked, fetched, toReview, rv.calls, rv.results, {}, "")
    ELSE IF env = "createFails"
    THEN Outcome(forceReview, fns, asked, fetched, toReview, rv.calls, rv.results, {},
                 "create")
    ELSE Outcome(forceReview, fns, asked, fetched, toReview, rv.calls, rv.results,
                 { PostedBody(c) : c \in Range(ResultComments(rv.results, 1)) }, "")

runReview(forceReview, env, fns, oracle, existing) ==
    IF env = "startFails"
    THEN Outcome(forceReview, <<>>, FALSE, FALSE, <<>>, <<>>, <<>>, {}, "start")
    ELSE IF Len(fns) = 0
    THEN Outcome(forceReview, fns, FALSE, FALSE, <<>>, <<>>, <<>>, {}, "")
    ELSE CHOOSE r \in
           { IF Len(toReview) = 0
             THEN Outcome(forceReview, fns, ~forceReview,
                          ~forceReview /\ env # "fetchFails", toReview, <<>>, <<>>, {}, "")
             ELSE CHOOSE o \in
                    { reviewAndPost(forceReview, env, fns, ~forceReview,
                                    ~forceReview /\ env # "fetchFails", toReview, rv) :
                        rv \in { ReviewFunctions(toReview, oracle) } } : TRUE :
               toReview \in { functionsToReview(forceReview, env = "fetchFails",
                                                fns, existing) } } : TRUE

\* The functions a pull request shows from run to run, and the answers of
\* the LLM to the first and the second call of a run.
RunLists == { <<>>, <<FnOne, FnTwo>>, <<FnTwo, FnMoved>> }

RunOracles ==
    { <<CompleteLGTM, CompleteIssue>>, <<CompleteIssue, CompleteQuote>>,
      <<CompleteFails, CompleteIssue>>, <<CompleteQuote, CompleteLGTM>> }

InitRun ==
    /\ op = "start"
    /\ prComments = {}
    /\ answered = {}
    /\ run = <<>>
    /\ erred = <<{}, {}>>
    /\ IdleDiff
    /\ IdleExtract
    /\ IdleHash
    /\ IdleMark
    /\ IdleTracker
    /\ IdleLLM

DoRunReview ==
    \E forceReview \in BOOLEAN, env \in RunEnvs, fns \in RunLists, oracle \in RunOracles :
        \E r \in { runReview(forceReview, env, fns, oracle, prComments) } :
        /\ run' = [r |-> r, existing |-> prComments, answeredBefore |-> answered]
        /\ prComments' = prComments \cup r.posted
        /\ answered' = answered \cup
               { Tuple(r.results[i].Function) :
                   i \in { j \in 1..Len(r.results) : r.results[j].Error = <<>> } }
        /\ op' = "runReview"
        /\ UNCHANGED <<erred, diffVars, extVars, hashVars, markVars, trkVars, llmVars>>

NextRun == DoRunReview

SpecRun == InitRun /\ [][NextRun]_vars

\* The last step was a run that got as far as extracting the functions.
Ran == op = "runReview"

\* The body holds the marker of fingerprint h somewhere.
Carries(body, h) ==
    \E p \in MarkerPositions(body) : SubSeq(body, p + 19, p + 30) = h

\* The functions the run sent to the LLM.
Sent == Range(run.r.calls)

(***************************************************************************)
(* C16: when the comments fetched at the start of a run without --force    *)
(* hold a body that carries the marker of fingerprint F, the run sends no  *)
(* function with fingerprint F to the LLM; so a function for which an      *)
(* earlier run posted a comment, and which is the same in path, name,      *)
(* content and diff, is left out by the second run.                        *)
(***************************************************************************)
C16_MarkedNeverSent ==
    (Ran /\ ~run.r.force /\ run.r.fetched) =>
        \A fn \in Sent : \A body \in run.existing :
            ~Carries(body, FunctionHash(fn))

(***************************************************************************)
(* C17: a run without --force skips every function that an earlier run     *)
(* sent to the LLM and got an answer for, and that has not changed since.  *)
(* Stated for the runs whose fetch of the comments succeeded.              *)
(***************************************************************************)
C17_AnsweredNeverResent ==
    (Ran /\ ~run.r.force /\ run.r.fetched) =>
        \A fn \in Sent : Tuple(fn) \notin run.answeredBefore

(***************************************************************************)
(* C18 as stated: with --force the comments of the pull request are not    *)
(* consulted and every extracted function is sent to the LLM.              *)
(***************************************************************************)
C18_ForceSendsAll ==
    (Ran /\ run.r.force) =>
        /\ ~run.r.asked
        /\ run.r.calls = run.r.functions

(***************************************************************************)
(* C18 amended: with --force the comments of the pull request are not      *)
(* consulted and all extracted functions go to the review, marked in an    *)
(* earlier comment or not; they are sent to the LLM, each once and in      *)
(* order, unless the run stops for a missing LLM_API_KEY, and then none is.*)
(***************************************************************************)
C18_ForceSendsAllWithKey ==
    (Ran /\ run.r.force) =>
        /\ ~run.r.asked
        /\ run.r.toReview = run.r.functions
        /\ run.r.err # "key" => run.r.calls = run.r.functions
        /\ run.r.err = "key" => run.r.calls = <<>>

\* A forced run sends a function whose marker stands in a comment of an
\* earlier run.
C18_Witness ==
    /\ Ran
    /\ run.r.force
    /\ Len(run.r.calls) = 2
    /\ \E fn \in Sent : \E body \in run.existing :
         ExtractHash(body) = FunctionHash(fn)

(***************************************************************************)
(* Two range queries on one patch: the correlator asks, for the range of   *)
(* each function of a file, whether an added line lies in it               *)
(* (HasModifiedLineInRange) and for the part of the patch that belongs to  *)
(* it (ExtractDiffForRange); the second query stands for another function  *)
(* of the file.                                                            *)
(***************************************************************************)
MaxPairBody == 2    \* body lines of a patch that is queried for two ranges

\* result.String() at line 137: ExtractDiffForRange before the final trim.
RawDiffForRange(p, startLine, endLine) ==
    IF p = <<>> THEN <<>>
    ELSE LET fileDiffs == ParseMultiFileDiff(WithFileHeader(p))
         IN  IF fileDiffs.err THEN <<>>
             ELSE ExtractHunks(<<>>, fileDiffs.hunks, 1, startLine, endLine)

\* The patches queried twice: the empty patch and the patches of one and
\* of two hunks, with and without the file header lines.
IsPairPatch(p) ==
    \/ p = <<>>
    \/ \E n \in 0..MaxPairBody : p \in OneHunkPatches(n)
    \/ \E n \in 0..MaxPairBody :
         p \in { <<FileOldLine, FileNewLine>> \o q : q \in OneHunkPatches(n) }
    \/ \E m \in { x \in TwoHunkLengths : x[1] + x[2] <= MaxPairBody } :
         p \in TwoHunkPatches(m[1], m[2])

InitRanges ==
    /\ IsPairPatch(patch)
    /\ op = "start"
    /\ rng = <<0, 0>>
    /\ ml = NoLines
    /\ err = FALSE
    /\ has = FALSE
    /\ out = <<>>
    /\ IdlePair
    /\ IdleExtract
    /\ IdleHash
    /\ IdleLater

DoQueryRanges ==
    /\ op = "ParsePatch"
    /\ ~err
    /\ \E r \in Ranges, r2 \in Ranges :
        /\ rng' = r
        /\ rngB' = r2
        /\ has' = HasModifiedLineInRange(ml, r[1], r[2])
        /\ out' = ExtractDiffForRange(patch, r[1], r[2])
        /\ rawA' = RawDiffForRange(patch, r[1], r[2])
        /\ outB' = ExtractDiffForRange(patch, r2[1], r2[2])
        /\ rawB' = RawDiffForRange(patch, r2[1], r2[2])
    /\ op' = "QueryRanges"
    /\ UNCHANGED <<patch, ml, err, extVars, hashVars, laterVars>>

NextRanges ==
    \/ DoParsePatch
    \/ DoQueryRanges

SpecRanges == InitRanges /\ [][NextRanges]_vars

\* The hunk header lines of p, and the body lines below header line j.
HeaderIdx(p) == { j \in 1..Len(p) : IsHunkHeader(p[j]) }
BodyOf(p, j) == { i \in BodyIdx(p) : HunkOf(p, i) = j }

\* Every hunk header declares a new-line count that is at least the number
\* of the body lines whose first character is in chars.
CountCovers(p, chars) ==
    \A j \in HeaderIdx(p) :
        p[j].nl >= Cardinality({ i \in BodyOf(p, j) : FirstChar(p[i]) \in chars })

\* The first characters of the body lines of the model that advance the
\* new-line counter: '+', ' ' and the backslash of the default case.
Advancing == { "+", " ", BS }

\* The text holds a line that starts with '+'.
HasPlusLine(text) ==
    \E k \in 1..Len(Split(text)) : Split(text)[k] # <<>> /\ Split(text)[k][1] = "+"

Queried == op = "QueryRanges"

(***************************************************************************)
(* C21 as stated: for every patch whose hunk headers declare a new-line    *)
(* count of at least the number of '+' and context lines of the hunk body, *)
(* HasModifiedLineInRange(ParsePatch(patch), s, e) holds exactly when      *)
(* ExtractDiffForRange(patch, s, e) holds a '+' line.                      *)
(***************************************************************************)
C21_HasIffPlusEmitted ==
    (Queried /\ CountCovers(patch, {"+", " "})) =>
        (has <=> HasPlusLine(out))

(***************************************************************************)
(* C21 amended: the equivalence holds for the patches whose hunk headers   *)
(* declare a new-line count of at least the number of body lines that      *)
(* advance the new-line counter: '+' lines, context lines and lines with   *)
(* any other first character but '-'.  For these the text extracted for a  *)
(* range that holds an added line is never empty, so every function the    *)
(* correlator emits has a non-empty Diff.                                  *)
(***************************************************************************)
C21_HasIffPlusEmittedCovered ==
    (Queried /\ CountCovers(patch, Advancing)) =>
        /\ has <=> HasPlusLine(out)
        /\ has => out # <<>>

\* An added line below a context line, asked for by its own line number.
C21_Witness ==
    /\ Queried
    /\ CountCovers(patch, Advancing)
    /\ has
    /\ HasPlusLine(out)
    /\ rng[1] = rng[2]
    /\ \E i \in PlusIdx(patch) :
         NewLineAt(patch, i) = rng[1] /\ rng[1] > patch[HunkOf(patch, i)].ns

(***************************************************************************)
(* ExtractDiffForRange without the test at line 103: the loop over the     *)
(* lines runs for every hunk.                                              *)
(***************************************************************************)
RECURSIVE EveryHunk(_, _, _, _, _)
EveryHunk(result, hunks, h, startLine, endLine) ==
    IF h > Len(hunks) THEN result
    ELSE EveryHunk(
             ExtractLines([result |-> result, newLine |-> hunks[h].NewStartLine],
                          Split(hunks[h].Body), 1, startLine, endLine).result,
             hunks, h + 1, startLine, endLine)

WithoutSkip(p, startLine, endLine) ==
    IF p = <<>> THEN <<>>
    ELSE LET fileDiffs == ParseMultiFileDiff(WithFileHeader(p))
         IN  IF fileDiffs.err THEN <<>>
             ELSE TrimSpace(EveryHunk(<<>>, fileDiffs.hunks, 1, startLine, endLine))

\* The body lines the per-line rules pick for [s, e], whatever their hunk.
PickedIdx(p, s, e) ==
    { i \in BodyIdx(p) :
        \/ FirstChar(p[i]) = "+" /\ s <= NewLineAt(p, i) /\ NewLineAt(p, i) <= e
        \/ FirstChar(p[i]) = "-" /\ s <= NewLineAt(p, i) /\ NewLineAt(p, i) <= e + 1 }

\* Those of them that lie in a hunk whose declared span overlaps [s, e].
EmittedIdx(p, s, e) == { i \in PickedIdx(p, s, e) : SpanOverlaps(p, i, s, e) }

ExtractedRange == op = "ExtractDiffForRange" /\ ~err

(***************************************************************************)
(* C22 as stated: the hunk-level skip is a pure optimisation; for every    *)
(* patch and range the output equals the output of the per-line rules      *)
(* applied to every hunk, pure-deletion hunks and deletions at position    *)
(* end+1 included.                                                         *)
(***************************************************************************)
C22_SkipChangesNothing ==
    ExtractedRange => out = WithoutSkip(patch, rng[1], rng[2])

(***************************************************************************)
(* C22 amended: the output holds the lines the per-line rules pick from    *)
(* the hunks whose declared span overlaps the range, while the rules       *)
(* applied to every hunk give all picked lines; the skip removes the       *)
(* picked lines of the other hunks.  When the declared counts cover the    *)
(* lines that advance the new-line counter, the removed lines are '-'      *)
(* lines only: deletions behind the last new line of their hunk (all       *)
(* deletions of a pure-deletion hunk are such), and deletions at position  *)
(* end+1 at the top of a hunk that starts there.                           *)
(***************************************************************************)
C22_SkipDropsDeletions ==
    ExtractedRange =>
      \A picked \in { PickedIdx(patch, rng[1], rng[2]) } :
      \A emitted \in { { i \in picked : SpanOverlaps(patch, i, rng[1], rng[2]) } } :
        /\ out = LinesAt(patch, emitted)
        /\ WithoutSkip(patch, rng[1], rng[2]) = LinesAt(patch, picked)
        /\ CountCovers(patch, Advancing) =>
              \A i \in picked \ emitted :
                  /\ FirstChar(patch[i]) = "-"
                  /\ \/ NewLineAt(patch, i) =
                            patch[HunkOf(patch, i)].ns + patch[HunkOf(patch, i)].nl
                     \/ /\ NewLineAt(patch, i) = rng[2] + 1
                        /\ patch[HunkOf(patch, i)].ns = rng[2] + 1

\* The deletion at the top of a hunk that starts at end+1 is picked by the
\* per-line rule and dropped with its hunk.
C22_Witness ==
    /\ ExtractedRange
    /\ CountCovers(patch, Advancing)
    /\ out # WithoutSkip(patch, rng[1], rng[2])
    /\ \E i \in PickedIdx(patch, rng[1], rng[2]) \ EmittedIdx(patch, rng[1], rng[2]) :
         patch[HunkOf(patch, i)].nl > 0

(***************************************************************************)
(* The loop of Parse as a state machine: the query cursor yields a list of *)
(* matches, each with a function node, and Parse collects the functions.   *)
(***************************************************************************)
MaxMatches == 3     \* matches of the function query in a file

\* Names: no name capture, and two names.  Rows of the function node.
MatchNames == { <<>>, <<"f">>, <<"g">> }
MatchRows  == { <<0, 0>>, <<0, 1>>, <<2, 2>> }
Matches == { Match(n, r[1], r[2], <<" ", "F", NL>>) : n \in MatchNames, r \in MatchRows }

InitParse ==
    /\ op = "start"
    /\ \E n \in 0..MaxMatches : cursorMatches \in [1..n -> Matches]
    /\ parsed = <<>>
    /\ files = <<>>
    /\ cfg = [nil |-> TRUE, IgnorePaths |-> <<>>]
    /\ functions = <<>>
    /\ xerr = FALSE
    /\ IdleDiff
    /\ IdleHash
    /\ IdleLater

DoParse ==
    /\ op = "start"
    /\ parsed' = CollectFunctions(cursorMatches, 1, <<>>, {})
    /\ op' = "Parse"
    /\ UNCHANGED <<cursorMatches, files, cfg, functions, xerr, diffVars, hashVars, laterVars>>

NextParse == DoParse

SpecParse == InitParse /\ [][NextParse]_vars

\* The matches that are the first with their pair of rows.
FirstOfPair(ms) ==
    { i \in 1..Len(ms) :
        \A j \in 1..(i - 1) :
            <<ms[j].startRow, ms[j].endRow>> # <<ms[i].startRow, ms[i].endRow>> }

(***************************************************************************)
(* C24: the list Parse returns never holds two entries with the same       *)
(* (StartLine, EndLine): of the matches with the same start and end line   *)
(* the first one is kept, with its name, and the matches with distinct     *)
(* pairs are all kept, in match order.                                     *)
(***************************************************************************)
C24_OneEntryPerPair ==
    op = "Parse" =>
        /\ \A a, b \in 1..Len(parsed) :
              (parsed[a].StartLine = parsed[b].StartLine
                 /\ parsed[a].EndLine = parsed[b].EndLine) => a = b
        /\ Len(parsed) = Cardinality(FirstOfPair(cursorMatches))
        /\ \A k \in 1..Len(parsed) :
              LET m == cursorMatches[Nth(FirstOfPair(cursorMatches), k)]
              IN  /\ parsed[k].StartLine = m.startRow + 1
                  /\ parsed[k].EndLine = m.endRow + 1
                  /\ parsed[k].Name = IF m.name = <<>> THEN Anonymous ELSE m.name

\* Two matches of one node under different names, around a match of
\* another node that starts on the same line: the first name is kept.
C24_Witness ==
    /\ op = "Parse"
    /\ Len(cursorMatches) = 3
    /\ <<cursorMatches[1].startRow, cursorMatches[1].endRow>> = <<cursorMatches[3].startRow, cursorMatches[3].endRow>>
    /\ cursorMatches[1].name # cursorMatches[3].name
    /\ cursorMatches[2].startRow = cursorMatches[1].startRow
    /\ cursorMatches[2].endRow # cursorMatches[1].endRow
    /\ Len(parsed) = 2
    /\ parsed[1].Name = cursorMatches[1].name

\* The '+' lines that stand at the top of the new side of a hunk declared
\* with new start 0, and the '-' lines at the top of the old side of a hunk
\* declared with old start 0.
PlusAtZero(p)  == { i \in PlusIdx(p)  : NewLineAt(p, i) = 0 }
MinusAtZero(p) == { i \in MinusIdx(p) : OldLineAt(p, i) = 0 }

(***************************************************************************)
(* C23 as stated: every line number in Added and in Deleted is at least 1  *)
(* for every patch that is accepted without error.                         *)
(***************************************************************************)
C23_LineNumbersPositive ==
    (op = "ParsePatch" /\ ~err) =>
        /\ \A k \in 1..Len(ml.Added)   : ml.Added[k] >= 1
        /\ \A k \in 1..Len(ml.Deleted) : ml.Deleted[k] >= 1

(***************************************************************************)
(* C23 amended: every line number in Added is at least the declared new    *)
(* start of its hunk and every one in Deleted at least the declared old    *)
(* start.  Added holds a 0 exactly when a hunk declared with new start 0   *)
(* has a '+' line with no '+', context or other line above it, Deleted     *)
(* exactly when a hunk declared with old start 0 has a '-' line with no    *)
(* '-', context or other line above it; all other numbers are at least 1.  *)
(***************************************************************************)
C23_LineNumbersFromDeclaredStart ==
    (op = "ParsePatch" /\ ~err) =>
        /\ \A k \in 1..Len(ml.Added) :
              /\ ml.Added[k] >= patch[HunkOf(patch, Nth(PlusIdx(patch), k))].ns
              /\ ml.Added[k] >= 0
              /\ ml.Added[k] = 0 <=> Nth(PlusIdx(patch), k) \in PlusAtZero(patch)
        /\ \A k \in 1..Len(ml.Deleted) :
              /\ ml.Deleted[k] >= patch[HunkOf(patch, Nth(MinusIdx(patch), k))].os
              /\ ml.Deleted[k] >= 0
              /\ ml.Deleted[k] = 0 <=> Nth(MinusIdx(patch), k) \in MinusAtZero(patch)
        /\ (PlusAtZero(patch) = {} /\ MinusAtZero(patch) = {}) =>
              /\ \A k \in 1..Len(ml.Added)   : ml.Added[k] >= 1
              /\ \A k \in 1..Len(ml.Deleted) : ml.Deleted[k] >= 1

\* A new file: the hunk is declared -0,0 and its added lines count from 1.
C23_Witness ==
    /\ op = "ParsePatch" /\ ~err
    /\ \A j \in HeaderIdx(patch) : patch[j].os = 0
    /\ MinusIdx(patch) = {}
    /\ Len(ml.Added) >= 2
    /\ ml.Added[1] = 1

(***************************************************************************)
(* C25: every comment runReview posts for a function carries the marker of *)
(* the function in such a way that the next run recovers it: ExtractHash   *)
(* of the posted body is the FunctionHash of the function, whatever text   *)
(* the LLM returned as the description.                                    *)
(***************************************************************************)
C25_PostedMarkerRecovered ==
    (Ran /\ run.r.posted # {}) =>
        \A i \in 1..Len(run.r.results) :
            HasIssues(run.r.results[i]) =>
                \A c \in Range(SuggestionComments(run.r.results[i], 1)) :
                    /\ PostedBody(c) \in run.r.posted
                    /\ ExtractHash(PostedBody(c)) = FunctionHash(run.r.results[i].Function)

(***************************************************************************)
(* Runs that follow a failed review: the same steps as in SpecRun, on a    *)
(* pull request that shows two functions, in one case alike in path, name, *)
(* content and diff, with the functions whose review failed kept from one  *)
(* run to the next.                                                        *)
(***************************************************************************)
RetryLists == { <<FnOne, FnTwo>>, <<FnOne, FnMoved>> }

\* The first call fails and the second finds an issue, or the first finds
\* an issue and the second none.
RetryOracles == { <<CompleteFails, CompleteIssue>>, <<CompleteIssue, CompleteLGTM>> }

\* GetReviewComments may fail, and LLM_API_KEY may be missing.
RetryEnvs == { "ok", "fetchFails", "noKey" }

\* The functions of a run whose result has Error set.
ErredIn(r) ==
    { r.results[i].Function :
        i \in { j \in 1..Len(r.results) : r.results[j].Error # <<>> } }

DoRetryReview ==
    \E forceReview \in BOOLEAN, env \in RetryEnvs, fns \in RetryLists,
       oracle \in RetryOracles :
        \E r \in { runReview(forceReview, env, fns, oracle, prComments) } :
        /\ run' = [r |-> r, existing |-> prComments, answeredBefore |-> answered]
        /\ prComments' = prComments \cup r.posted
        /\ answered' = answered \cup
               { Tuple(r.results[i].Function) :
                   i \in { j \in 1..Len(r.results) : r.results[j].Error = <<>> } }
        /\ erred' = <<erred[2], ErredIn(r)>>
        /\ op' = "runReview"
        /\ UNCHANGED <<diffVars, extVars, hashVars, markVars, trkVars, llmVars>>

NextRetry == DoRetryReview

SpecRetry == InitRun /\ [][NextRetry]_vars

\* The results of a run whose review did not fail.
OkResults(r) == SelectSeq(r.results, LAMBDA x : x.Error = <<>>)

\* The run got as far as the review: the start worked and the key is set.
Reviewing(r) == r.err \notin {"start", "key"}

\* No comment of the run stems from a result with Error set.
NoCommentForErred ==
    Ran =>
        /\ \A i \in 1..Len(run.r.results) :
              run.r.results[i].Error # <<>> =>
                  /\ ~HasIssues(run.r.results[i])
                  /\ run.r.results[i].Suggestions = <<>>
        /\ run.r.posted \subseteq
               { PostedBody(c) : c \in Range(ResultComments(OkResults(run.r), 1)) }

(***************************************************************************)
(* C26 as stated: a function whose review fails produces no comment and no *)
(* marker in that run, and the next run without --force whose inputs are   *)
(* unchanged sends it to the LLM again unless some other run posted a      *)
(* marker for its fingerprint.                                             *)
(***************************************************************************)
C26_FailedSentAgain ==
    [][ Ran =>
          /\ NoCommentForErred
          /\ \A fn \in ErredIn(run.r) :
                (~run'.r.force /\ Reviewing(run'.r) /\ fn \in Range(run'.r.functions)) =>
                    \/ fn \in Range(run'.r.calls)
                    \/ \E body \in run.existing : Carries(body, FunctionHash(fn)) ]_vars

(***************************************************************************)
(* C26 amended: a function whose review fails produces no comment and no   *)
(* marker of its own in that run.  The next run without --force that shows *)
(* the function unchanged and gets as far as the review sends it to the    *)
(* LLM again, except when the comments it fetched hold a body whose first  *)
(* marker is the fingerprint of the function, be it posted by an earlier   *)
(* run or by the failing run itself for another function that is alike in  *)
(* path, name, content and diff.                                           *)
(***************************************************************************)
C26_FailedSentAgainUnlessMarked ==
    [][ Ran =>
          /\ NoCommentForErred
          /\ \A fn \in ErredIn(run.r) :
                (~run'.r.force /\ Reviewing(run'.r) /\ fn \in Range(run'.r.functions)) =>
                    /\ run'.existing = run.existing \cup run.r.posted
                    /\ fn \in Range(run'.r.calls) <=>
                          ~(run'.r.fetched
                              /\ \E body \in run'.existing :
                                    ExtractHash(body) = FunctionHash(fn)) ]_vars

\* The review of a function failed in one run, which posted a comment for
\* another function; the next run fetched that comment and sent the
\* function again.
C26_Witness ==
    /\ Ran
    /\ ~run.r.force /\ run.r.fetched
    /\ run.existing # {}
    /\ \E fn \in erred[1] : fn \in Range(run.r.calls)

\* The last run was made without --force and its fetch of the comments
\* failed.
FetchFailed == Ran /\ ~run.r.force /\ run.r.asked /\ ~run.r.fetched

RawLinesAt(p, S) == Flatten(AlongIdx(S, LAMBDA i : p[i].txt))

(***************************************************************************)
(* C28: for two ranges [s1, e1] and [s2, e2] with e1 < s2, no '+' line of  *)
(* the patch is emitted by both extractions, and a '-' line is emitted by  *)
(* both only when the ranges are adjacent (s2 = e1 + 1) and the new-line   *)
(* position of the line is s2.                                             *)
(***************************************************************************)
C28_DisjointRangesShareOnlyBoundaryDeletions ==
    (Queried /\ rng[2] < rngB[1]) =>
        LET A == EmittedIdx(patch, rng[1], rng[2])
            B == EmittedIdx(patch, rngB[1], rngB[2])
        IN  /\ rawA = RawLinesAt(patch, A)
            /\ rawB = RawLinesAt(patch, B)
            /\ \A i \in A \cap B :
                  /\ FirstChar(patch[i]) = "-"
                  /\ rngB[1] = rng[2] + 1
                  /\ NewLineAt(patch, i) = rngB[1]

\* Two adjacent ranges, each with lines of its own, and a deleted line at
\* the start of the second that both extractions emit.
C28_Witness ==
    /\ Queried
    /\ rng[2] + 1 = rngB[1]
    /\ \E i \in EmittedIdx(patch, rng[1], rng[2]) \cap EmittedIdx(patch, rngB[1], rngB[2]) :
          FirstChar(patch[i]) = "-"
    /\ rawA # <<>> /\ rawB # <<>>

\* a is a sub-sequence of b: b with some of its elements left out.
RECURSIVE IsSubsequence(_, _)
IsSubsequence(a, b) ==
    IF a = <<>> THEN TRUE
    ELSE IF b = <<>> THEN FALSE
    ELSE IF Head(a) = Head(b) THEN IsSubsequence(Tail(a), Tail(b))
    ELSE IsSubsequence(a, Tail(b))

\* The lines written into the strings.Builder, each of them ended by a
\* newline.
WrittenLines(raw) == IF raw = <<>> THEN <<>> ELSE Split(SubSeq(raw, 1, Len(raw) - 1))

(***************************************************************************)
(* C30: ExtractDiffForRange is monotone in its range.  When s' <= s and    *)
(* e <= e', the sequence of lines emitted for [s, e] is a sub-sequence of  *)
(* the one emitted for [s', e'], before the final trim: every line of the  *)
(* patch emitted for the narrow range is emitted for the wide one, in the  *)
(* same order.                                                             *)
(***************************************************************************)
C30_MonotoneInRange ==
    (Queried /\ rngB[1] <= rng[1] /\ rng[2] <= rngB[2]) =>
        /\ IsSubsequence(WrittenLines(rawA), WrittenLines(rawB))
        /\ EmittedIdx(patch, rng[1], rng[2]) \subseteq EmittedIdx(patch, rngB[1], rngB[2])
        /\ Len(rawA) <= Len(rawB)

\* A range strictly inside another: the narrow one emits a deleted line,
\* the wide one that line and an added line above it.
C30_Witness ==
    /\ Queried
    /\ rngB[1] < rng[1] /\ rng[2] <= rngB[2]
    /\ rawA # <<>>
    /\ Len(rawA) < Len(rawB)
    /\ \E i \in EmittedIdx(patch, rng[1], rng[2]) : FirstChar(patch[i]) = "-"
    /\ \E i \in EmittedIdx(patch, rngB[1], rngB[2]) : FirstChar(patch[i]) = "+"

\* The place of the '+' line at position i among the '+' lines of p.
PlusRank(p, i) == Cardinality({ j \in PlusIdx(p) : j <= i })

\* The zero-length lines in the hunk bodies of p.
EmptyIdx(p) == { i \in BodyIdx(p) : p[i].txt = <<>> }

====
